---- MODULE Spec2Model ----
(***************************************************************************)
(* Model of the Forge deployment script (src/src/deploy.py) with its       *)
(* helpers (src/src/utils.py) and API client (src/src/forge_api.py).       *)
(*                                                                         *)
(* The specifications share the variables:                                 *)
(*   SpecWait    - the wait/backoff primitive driven by a predicate that   *)
(*                 first succeeds on a chosen call (or never);             *)
(*   SpecCert    - get_domains_certificate applied to bounded inputs;      *)
(*   Spec        - main(): the per-site reconciliation run against a       *)
(*                 remote server whose asynchronous operations finish on   *)
(*                 their own;                                              *)
(*   SpecFail    - Spec with requests that may fail;                       *)
(*   SpecLag     - Spec with a provider that may turn deployment_status    *)
(*                 non-null only some time after accepting the trigger;    *)
(*   SpecRace    - two runs of main() at once against one server;          *)
(*   SpecRootWait - wait() of the root-level script (src/utils.py);        *)
(*   SpecSecrets - the secrets phase of main() and replace_secrets_yaml;   *)
(*   SpecPath    - ensure_relative_path inside load_config;                *)
(*   SpecEnv     - the env step: parse_env, merge and rendering;           *)
(*   SpecLoad    - validation and load_config on a document, and the       *)
(*                 values main() takes from the configuration.             *)
(***************************************************************************)
EXTENDS Integers, Sequences, FiniteSets, TLC

VARIABLES
    w,          \* frame of the wait() call in progress (utils.wait locals)
    succAt,     \* SpecWait: call on which the predicate first succeeds, 0 = never
    cm_certs,   \* SpecCert: the certificates argument
    cm_domains, \* SpecCert: the domains argument
    cm_result,  \* SpecCert: the returned value
    cm_done,    \* SpecCert: whether the call has returned
    cfg,        \* the loaded configuration (config of main)
    files,      \* local files: nginx templates, custom nginx config, env file
    pc,         \* position of main()
    run,        \* number of the run of the script in progress
    idx,        \* index of site_conf in config["sites"]
    loc,        \* local variables of main()
    calls,      \* the remote calls of this run, in order
    exit_code,  \* process exit code, -1 while the script runs
    error,      \* message of the exception that ended the run
    r_servers,  \* remote: names of the account's servers
    r_sites,    \* remote: sites of the server, r_sites[id]
    r_templates, \* remote: nginx templates of the server
    r_php,      \* remote: PHP versions of the server
    r_daemons,  \* remote: daemons of the server
    r_jobs,     \* remote: scheduled jobs of the server
    r_certs,    \* remote: certificates, r_certs[id]
    r_next,     \* remote: next daemon and job ids
    SECRETS_ENV, \* the SECRETS environment variable of the process
    data,       \* the YAML document as loaded from the deployment file
    replaced,   \* data after the secrets phase of main()
    nrm,        \* SpecPath: a path followed by its successive normalisations
    ev,         \* SpecEnv: env-file text, inline text and the content pushed
    ld          \* SpecLoad: what main() derives from the loaded document

waitVars == <<w, succAt>>
certVars == <<cm_certs, cm_domains, cm_result, cm_done>>
inputVars == <<cfg, files, r_servers>>
localVars == <<pc, run, idx, loc, calls, exit_code, error>>
remoteVars == <<r_sites, r_templates, r_php, r_daemons, r_jobs, r_certs, r_next>>
runVars == <<inputVars, localVars, remoteVars>>
pureVars == <<SECRETS_ENV, data, replaced, nrm, ev, ld>>
vars == <<waitVars, certVars, runVars, pureVars>>

\* Python's None where an object is expected, where a string is expected, and
\* where a text of several lines is expected (a text has at least one line).
None == [none |-> TRUE]
NoStr == "None"
NoText == <<>>

IdlePure ==
    /\ SECRETS_ENV = NoText /\ data = None /\ replaced = None
    /\ nrm = <<>> /\ ev = None /\ ld = None

Min(a, b) == IF a <= b THEN a ELSE b

Range(s) == {s[i] : i \in 1..Len(s)}

(***************************************************************************)
(* utils.wait                                                              *)
(***************************************************************************)

\* time.sleep arguments are kept in milliseconds: 0.5 s and 30 s.
InitialTimeout == 500
MaxTimeout == 30000
DefaultMaxRetries == 8

\* Bounds of SpecWait.
MaxRetriesArg == 9
MaxSuccAt == 11
MaxWaitCalls == 12

WaitLoopCondBounded(retries, max_retries) == retries <= max_retries

WaitLoopCondStrict(retries, max_retries) ==
    max_retries < 0 \/ retries < max_retries

\* while max_retries < 0 or retries <= max_retries
WaitLoopCond(retries, max_retries) ==
    max_retries < 0 \/ retries <= max_retries

NextTimeoutUncapped(timeout) == timeout * 2

\* timeout = min(timeout * 2, max_timeout)
NextTimeout(timeout) == Min(timeout * 2, MaxTimeout)

NoWait ==
    [max |-> 0, retries |-> 0, timeout |-> 0, calls |-> 0, slept |-> <<>>,
     result |-> "none"]

\* Entry of wait(): retries = 0, timeout = 0.5, then the first loop test.
WaitStart(max_retries) ==
    [max |-> max_retries, retries |-> 0, timeout |-> InitialTimeout,
     calls |-> 0, slept |-> <<>>,
     result |-> IF WaitLoopCond(0, max_retries) THEN "running" ELSE "false"]

WaitIterSleepFirst(f, ok) ==
    LET r == f.retries + 1
        g == [f EXCEPT !.calls = @ + 1, !.slept = Append(@, f.timeout),
                       !.retries = r, !.timeout = NextTimeout(@)]
    IN  IF ok THEN [g EXCEPT !.result = "true"]
        ELSE [g EXCEPT !.result =
                  IF WaitLoopCond(r, f.max) THEN "running" ELSE "false"]

\* One iteration of the loop body with the callback's result ok, followed by
\* the next loop test.
WaitIter(f, ok) ==
    IF ok
    THEN [f EXCEPT !.calls = @ + 1, !.result = "true"]
    ELSE LET r == f.retries + 1
         IN  [f EXCEPT !.calls = @ + 1,
                       !.slept = Append(@, f.timeout),
                       !.retries = r,
                       !.timeout = NextTimeout(@),
                       !.result = IF WaitLoopCond(r, f.max)
                                  THEN "running" ELSE "false"]

(***************************************************************************)
(* Strings that are split or joined are sequences of atoms; a domain name  *)
(* is one atom and "," is the separator atom.                              *)
(***************************************************************************)

Comma == ","

Str(atom) == <<atom>>

StrList(atoms) == [i \in 1..Len(atoms) |-> Str(atoms[i])]

\* str.split(","): the pieces between the separators, empty pieces kept.
RECURSIVE SplitComma(_)
SplitComma(s) ==
    IF \A i \in 1..Len(s) : s[i] # Comma
    THEN <<s>>
    ELSE LET i == CHOOSE k \in 1..Len(s) :
                      s[k] = Comma /\ \A j \in 1..(k - 1) : s[j] # Comma
         IN  <<SubSeq(s, 1, i - 1)>> \o SplitComma(SubSeq(s, i + 1, Len(s)))

\* The "domain" field of a certificate as the API returns it: the names the
\* certificate covers, joined by commas.
RECURSIVE JoinComma(_)
JoinComma(names) ==
    IF names = <<>> THEN <<>>
    ELSE IF Len(names) = 1 THEN Str(names[1])
    ELSE Str(names[1]) \o <<Comma>> \o JoinComma(Tail(names))

\* A certificate of the API: names is the list the certificate was requested
\* for, domain its rendering in the response.
RemoteCert(id, names, status, active) ==
    [id |-> id, names |-> names, domain |-> JoinComma(names),
     status |-> status, active |-> active,
     activation_status |-> IF active THEN "activated" ELSE NoStr]

RECURSIVE get_domains_certificate_subset(_, _)
get_domains_certificate_subset(certificates, domains) ==
    IF certificates = <<>> THEN None
    ELSE LET cert == Head(certificates)
             cert_domains == SplitComma(cert.domain)
         IN  IF Range(cert_domains) \subseteq Range(domains)
             THEN cert
             ELSE get_domains_certificate_subset(Tail(certificates), domains)

\* utils.get_domains_certificate
RECURSIVE get_domains_certificate(_, _)
get_domains_certificate(certificates, domains) ==
    IF certificates = <<>> THEN None
    ELSE LET cert == Head(certificates)
             cert_domains == SplitComma(cert.domain)
         IN  IF Range(cert_domains) = Range(domains)
             THEN cert
             ELSE get_domains_certificate(Tail(certificates), domains)

\* Bounds of SpecCert.
MaxCerts == 2
MaxCertDomains == 2

DomainAtoms == {"a.test", "www.a.test"}

NameLists == UNION {[1..n -> DomainAtoms] : n \in 1..MaxCertDomains}

IdleCert ==
    cm_certs = <<>> /\ cm_domains = <<>> /\ cm_result = None /\ cm_done = FALSE

IdleWait == w = NoWait /\ succAt = 0

(***************************************************************************)
(* Data of a run: the configuration, the local files, the remote server.   *)
(***************************************************************************)

Last(s) == s[Len(s)]

\* Index of the first element of s satisfying Test, 0 when there is none:
\* next((x for x in s if ...), None).
FirstIndex(s, Test(_)) ==
    IF \E i \in 1..Len(s) : Test(s[i])
    THEN CHOOSE i \in 1..Len(s) : Test(s[i]) /\ \A j \in 1..(i - 1) : ~Test(s[j])
    ELSE 0

RECURSIVE SelectIn(_, _)
\* [x for x in s if x in keep]
SelectIn(s, keep) ==
    IF s = <<>> THEN <<>>
    ELSE (IF Head(s) \in keep THEN <<Head(s)>> ELSE <<>>) \o SelectIn(Tail(s), keep)

\* Path(...) / ...: the components of a path, "." components dropped.
PathOf(components) == SelectSeq(components, LAMBDA c : c # ".")

\* site_dir = Path("/home/forge/") / site_domain / root_dir
SiteDir(site_conf) == PathOf(<<"/home/forge", site_conf.site_domain>> \o site_conf.root_dir)

\* "directory" of the site-create payload: Path(root_dir) / web_dir
WebDir(site_conf) == PathOf(site_conf.root_dir \o site_conf.web_dir)

\* PHP versions as the API names them and the binary each one installs.
PhpVersions == {"php82", "php83"}

ServerDefaultPhp == "php82"

\* The PHP binary of a version ("php83" gives "php8.3").
format_php_version(version) ==
    CASE version = "php82" -> "php8.2"
      [] version = "php83" -> "php8.3"
      [] OTHER -> version

\* An nginx config or template is a sequence of tokens: literal text, or a
\* {{name}} token.
Lit(text) == [kind |-> "lit", text |-> text]
Var(name) == [kind |-> "var", text |-> name]

\* The {{name}} tokens of a config that have no entry in variables.
UnsetVariables(nginx_conf, variables) ==
    {nginx_conf[i].text : i \in {j \in 1..Len(nginx_conf) :
        nginx_conf[j].kind = "var" /\ nginx_conf[j].text \notin DOMAIN variables}}

\* utils.replace_nginx_variables, defined when UnsetVariables is empty.
replace_nginx_variables(nginx_conf, variables) ==
    [i \in 1..Len(nginx_conf) |->
        IF nginx_conf[i].kind = "var"
        THEN Lit(variables[nginx_conf[i].text])
        ELSE nginx_conf[i]]

\* An env text is the sequence of its lines, the pieces between the "\n"
\* characters, so that the empty string is one empty line. A line is a
\* sequence of atoms: "=" and " " are single characters, every other atom is
\* a run of characters that holds neither of them.
Eq == "="
Blank == " "
EmptyText == <<<<>>>>

\* `if text:` for a text that may be None
Truthy(text) == text # NoText /\ text # EmptyText

RECURSIVE LStrip(_)
LStrip(s) == IF s # <<>> /\ Head(s) = Blank THEN LStrip(Tail(s)) ELSE s

RECURSIVE RStrip(_)
RStrip(s) ==
    IF s # <<>> /\ Last(s) = Blank THEN RStrip(SubSeq(s, 1, Len(s) - 1)) ELSE s

\* str.strip() of one line
Strip(s) == RStrip(LStrip(s))

RECURSIVE StripText(_)
\* str.strip() of a text: blank lines at both ends go with their newlines,
\* then the blanks before the first and after the last character.
StripText(text) ==
    IF Len(text) > 1 /\ Strip(Head(text)) = <<>> THEN StripText(Tail(text))
    ELSE IF Len(text) > 1 /\ Strip(Last(text)) = <<>>
         THEN StripText(SubSeq(text, 1, Len(text) - 1))
    ELSE IF Len(text) = 1 THEN <<Strip(text[1])>>
    ELSE [text EXCEPT ![1] = LStrip(@), ![Len(text)] = RStrip(@)]

\* str.upper() of one atom
Upper(key) ==
    CASE key = "app_env" -> "APP_ENV"
      [] key = "app_key" -> "APP_KEY"
      [] key = "api_key" -> "API_KEY"
      [] key = "db_host" -> "DB_HOST"
      [] key = "db_pass" -> "DB_PASS"
      [] OTHER -> key

UpperStr(s) == [i \in 1..Len(s) |-> Upper(s[i])]

\* line.split("=", 1): key and value, None when the line holds no "=" (the
\* unpacking then raises ValueError).
SplitEq(line) ==
    IF \A i \in 1..Len(line) : line[i] # Eq THEN None
    ELSE LET i == CHOOSE k \in 1..Len(line) :
                      line[k] = Eq /\ \A j \in 1..(k - 1) : line[j] # Eq
         IN  <<SubSeq(line, 1, i - 1), SubSeq(line, i + 1, Len(line))>>

\* dict[key] = value on a dict kept as the sequence of its items.
DictSet(d, key, value) ==
    IF \E i \in 1..Len(d) : d[i][1] = key
    THEN [i \in 1..Len(d) |-> IF d[i][1] = key THEN <<key, value>> ELSE d[i]]
    ELSE Append(d, <<key, value>>)

RECURSIVE DictUpdate(_, _)
\* d.update(other)
DictUpdate(d, other) ==
    IF other = <<>> THEN d
    ELSE DictUpdate(DictSet(d, Head(other)[1], Head(other)[2]), Tail(other))

RECURSIVE ParseLines(_, _)
\* The loop of parse_env: an empty line is passed over, a line without "="
\* is reported and passed over, any other line sets parsed_env[key].
ParseLines(lines, parsed_env) ==
    IF lines = <<>> THEN parsed_env
    ELSE LET line == Head(lines)
             kv == SplitEq(line)
         IN  IF line = <<>> \/ kv = None
             THEN ParseLines(Tail(lines), parsed_env)
             ELSE ParseLines(Tail(lines),
                             DictSet(parsed_env, UpperStr(Strip(kv[1])),
                                     Strip(kv[2])))

\* utils.parse_env: {} for None and for the empty string.
parse_env(env) ==
    IF ~Truthy(env) THEN <<>> ELSE ParseLines(StripText(env), <<>>)

MergedEnvFileLast(file_text, environment) ==
    DictUpdate(
        DictUpdate(<<>>, IF Truthy(environment) THEN parse_env(environment) ELSE <<>>),
        IF file_text # NoText THEN parse_env(file_text) ELSE <<>>)

\* site_env after the two updates of the env step; file_text is NoText when no
\* env_file is declared.
MergedEnv(file_text, environment) ==
    DictUpdate(
        DictUpdate(<<>>, IF file_text # NoText THEN parse_env(file_text) ELSE <<>>),
        IF Truthy(environment) THEN parse_env(environment) ELSE <<>>)

\* f"{k}={v}"
EnvLine(item) == item[1] \o <<Eq>> \o item[2]

\* env_str = "\n".join([f"{k}={v}" for k, v in site_env.items()])
EnvStr(site_env) ==
    IF site_env = <<>> THEN EmptyText
    ELSE [i \in 1..Len(site_env) |-> EnvLine(site_env[i])]

DeploymentScriptWithoutRestarts(site_dir, commands, daemon_ids) ==
    [cd |-> site_dir, commands |-> commands, restart |-> <<>>,
     auto_source |-> FALSE]

\* The deployment script main() generates.
DeploymentScript(site_dir, commands, daemon_ids) ==
    [cd |-> site_dir, commands |-> commands, restart |-> daemon_ids,
     auto_source |-> FALSE]

\* The script the provider generates for a new site.
ProviderScript == [cd |-> <<>>, commands |-> "default", restart |-> <<>>,
                   auto_source |-> TRUE]

\* A site as the API returns it.
NewSite(id, payload, template) ==
    [id |-> id, name |-> payload.domain, status |-> "installing",
     aliases |-> payload.aliases, directory |-> payload.directory,
     project_type |-> payload.project_type,
     repository |-> NoStr, repository_branch |-> NoStr,
     repository_status |-> NoStr,
     php_version |-> ServerDefaultPhp, deployment_status |-> NoStr,
     nginx |-> template, script |-> ProviderScript, env |-> EmptyText,
     history |-> <<>>, deploy_accepted |-> FALSE]

\* Local variables of main() before the site loop; observed records what the
\* responses read so far have shown of the certificate of each site.
NoLocals ==
    [server_id |-> 0, sites |-> <<>>, site |-> None, site_id |-> 0,
     nginx_template_id |-> 0, nginx_config |-> <<>>,
     site_php_version |-> NoStr, site_daemons |-> <<>>, daemon_ids |-> <<>>,
     i |-> 0, scheduler_cmd |-> <<>>, current_scheduler_job |-> None,
     site_certificate |-> None, observed |-> <<>>]

IdleRun ==
    /\ cfg = None /\ files = None /\ r_servers = {}
    /\ pc = "idle" /\ run = 0 /\ idx = 0 /\ loc = NoLocals
    /\ calls = <<>> /\ exit_code = -1 /\ error = NoStr
    /\ r_sites = <<>> /\ r_templates = <<>> /\ r_php = <<>>
    /\ r_daemons = <<>> /\ r_jobs = <<>> /\ r_certs = <<>>
    /\ r_next = [daemon |-> 1, job |-> 1]

(***************************************************************************)
(* SpecWait: wait(predicate, max_retries) with a predicate that first      *)
(* succeeds on call succAt.                                                *)
(***************************************************************************)

InitWait ==
    /\ succAt \in 0..MaxSuccAt
    /\ \E m \in -2..MaxRetriesArg : w = WaitStart(m)
    /\ IdleCert
    /\ IdleRun
    /\ IdlePure

PredicateResult == succAt # 0 /\ w.calls + 1 >= succAt

WaitCall ==
    /\ w.result = "running"
    /\ w.calls < MaxWaitCalls
    /\ w' = WaitIter(w, PredicateResult)
    /\ UNCHANGED <<succAt, certVars, runVars, pureVars>>

NextWait == WaitCall

SpecWait == InitWait /\ [][NextWait]_vars

(***************************************************************************)
(* SpecCert: get_domains_certificate(certificates, domains) on every list  *)
(* of at most MaxCerts certificates and every declared domain list.        *)
(***************************************************************************)

InitCert ==
    /\ \E n \in 0..MaxCerts : \E nls \in [1..n -> NameLists] :
           cm_certs = [i \in 1..n |-> RemoteCert(i, nls[i], "installed", FALSE)]
    /\ cm_domains \in NameLists
    /\ cm_result = None
    /\ cm_done = FALSE
    /\ IdleWait
    /\ IdleRun
    /\ IdlePure

CertLookup ==
    /\ ~cm_done
    /\ cm_done' = TRUE
    /\ cm_result' = get_domains_certificate(cm_certs, StrList(cm_domains))
    /\ UNCHANGED <<cm_certs, cm_domains, waitVars, runVars, pureVars>>

NextCert == CertLookup

SpecCert == InitCert /\ [][NextCert]_vars

(***************************************************************************)
(* Spec: main() of deploy.py, one action per remote call or local step,    *)
(* and the provider finishing its asynchronous operations.                 *)
(***************************************************************************)

fixedVars == <<cfg, files, r_servers, certVars, succAt, run, pureVars>>

site_conf_from_last == cfg.sites[Len(cfg.sites) + 1 - idx]

\* for site_conf in config["sites"]
site_conf == cfg.sites[idx]

\* A request that got its response; ok is FALSE for a request that failed.
Call(op, arg) ==
    calls' = Append(calls, [op |-> op, site |-> idx, arg |-> arg, ok |-> TRUE])

\* The GET of a wait() callback; repeated polls of one wait are logged once.
PollCall(op) ==
    calls' = IF calls # <<>> /\ Last(calls).op = op /\ Last(calls).site = idx
             THEN calls
             ELSE Append(calls, [op |-> op, site |-> idx, arg |-> NoStr,
                                 ok |-> TRUE])

Continue(next) == pc' = next /\ UNCHANGED <<exit_code, error>>

RaiseLoggedOnly(message) == pc' = "exit" /\ exit_code' = 0 /\ error' = message

\* An exception that reaches __main__: logged, then sys.exit(1).
Raise(message) == pc' = "exit" /\ exit_code' = 1 /\ error' = message

\* The record kept of a response that showed the state `what` for the site
\* in hand; it is no variable of main().
Observe(shown, what) ==
    loc' = [loc EXCEPT !.observed =
               IF shown THEN Append(@, [site |-> idx, seen |-> what]) ELSE @]

\* One iteration of wait(callback) where the callback returned ok:
\* "if not wait(...): raise Exception(message)".
Poll(op, ok, next, message) ==
    /\ w.calls < MaxWaitCalls
    /\ IF w.result = "running"
       THEN LET f == WaitIter(w, ok)
            IN  /\ PollCall(op)
                /\ CASE f.result = "true" -> w' = NoWait /\ Continue(next)
                     [] f.result = "false" -> w' = f /\ Raise(message)
                     [] OTHER -> w' = f /\ Continue(pc)
       ELSE /\ UNCHANGED <<w, calls>>
            /\ Raise(message)

\* session.get(f"{forge_uri}/servers") and the lookup of server_name.
GetServers ==
    /\ pc = "start"
    /\ Call("get_servers", NoStr)
    /\ IF cfg.server_name \in r_servers
       THEN loc' = [loc EXCEPT !.server_id = 1] /\ Continue("get_sites")
       ELSE UNCHANGED loc /\ Raise("Server not found")
    /\ UNCHANGED <<fixedVars, idx, w, remoteVars>>

\* sites = forge_api.get_all_sites(server_id), then the for loop is entered.
GetSites ==
    /\ pc = "get_sites"
    /\ Call("get_sites", NoStr)
    /\ loc' = [loc EXCEPT !.sites = r_sites]
    /\ idx' = 1
    /\ IF cfg.sites = <<>>
       THEN pc' = "exit" /\ exit_code' = 0 /\ UNCHANGED error
       ELSE Continue("site")
    /\ UNCHANGED <<fixedVars, w, remoteVars>>

\* site = next((site for site in sites if site["name"] == site_domain), None)
SiteAbsentAlways(k) == TRUE

\* if not site:
SiteAbsent(k) == k = 0

SiteLookup ==
    /\ pc = "site"
    /\ LET k == FirstIndex(loc.sites, LAMBDA s : s.name = site_conf.site_domain)
       IN  IF SiteAbsent(k)
           THEN loc' = [loc EXCEPT !.site = None] /\ Continue("get_templates")
           ELSE /\ loc' = [loc EXCEPT !.site = loc.sites[k],
                                      !.site_id = loc.sites[k].id]
                /\ Continue("aliases")
    /\ UNCHANGED <<fixedVars, idx, calls, w, remoteVars>>

TemplateFileExists == site_conf.nginx_template \in DOMAIN files.templates

\* forge_api.get_nginx_templates and the match by name.
GetTemplates ==
    /\ pc = "get_templates"
    /\ Call("get_nginx_templates", NoStr)
    /\ LET k == FirstIndex(r_templates,
                           LAMBDA t : t.name = site_conf.nginx_template)
       IN  /\ loc' = [loc EXCEPT !.nginx_template_id =
                          IF k = 0 THEN 0 ELSE r_templates[k].id]
           /\ IF k # 0 THEN Continue("get_template")
              ELSE IF TemplateFileExists THEN Continue("create_template")
              ELSE Raise("Invalid nginx template name")
    /\ UNCHANGED <<fixedVars, idx, w, remoteVars>>

\* forge_api.create_nginx_template(server_id, name, file.read())
CreateTemplate ==
    /\ pc = "create_template"
    /\ LET id == Len(r_templates) + 1
       IN  /\ r_templates' = Append(r_templates,
                  [id |-> id, name |-> site_conf.nginx_template,
                   content |-> files.templates[site_conf.nginx_template]])
           /\ loc' = [loc EXCEPT !.nginx_template_id = id]
           /\ Call("create_nginx_template", site_conf.nginx_template)
    /\ Continue("create_site")
    /\ UNCHANGED <<fixedVars, idx, w, r_sites, r_php, r_daemons, r_jobs,
                   r_certs, r_next>>

TemplateDiffersNever(server_template, local_template) == FALSE

\* if server_template != local_template:
TemplateDiffers(server_template, local_template) ==
    server_template # local_template

\* forge_api.get_nginx_template_by_id and the comparison with the local file.
GetTemplate ==
    /\ pc = "get_template"
    /\ Call("get_nginx_template_by_id", loc.nginx_template_id)
    /\ IF /\ TemplateFileExists
          /\ TemplateDiffers(r_templates[loc.nginx_template_id].content,
                             files.templates[site_conf.nginx_template])
       THEN Continue("update_template")
       ELSE Continue("create_site")
    /\ UNCHANGED <<fixedVars, idx, loc, w, remoteVars>>

\* session.put(.../nginx/templates/{id}, json={"content": local_template})
UpdateTemplate ==
    /\ pc = "update_template"
    /\ Call("update_nginx_template", loc.nginx_template_id)
    /\ r_templates' = [r_templates EXCEPT ![loc.nginx_template_id].content =
                           files.templates[site_conf.nginx_template]]
    /\ Continue("create_site")
    /\ UNCHANGED <<fixedVars, idx, loc, w, r_sites, r_php, r_daemons, r_jobs,
                   r_certs, r_next>>

\* site = forge_api.create_site(server_id, create_site_payload), wait() entered.
CreateSite ==
    /\ pc = "create_site"
    /\ LET payload == [domain |-> site_conf.site_domain,
                       project_type |-> site_conf.project_type,
                       aliases |-> site_conf.aliases,
                       directory |-> WebDir(site_conf),
                       isolated |-> FALSE,
                       nginx_template |-> loc.nginx_template_id]
           new == NewSite(Len(r_sites) + 1, payload,
                          r_templates[loc.nginx_template_id].content)
       IN  /\ r_sites' = Append(r_sites, new)
           /\ loc' = [loc EXCEPT !.site = new]
           /\ Call("create_site", payload)
    /\ w' = WaitStart(DefaultMaxRetries)
    /\ Continue("wait_site")
    /\ UNCHANGED <<fixedVars, idx, r_templates, r_php, r_daemons, r_jobs,
                   r_certs, r_next>>

SiteInstalledOrInstalling(site) == site.status \in {"installed", "installing"}

\* return site["status"] == "installed"
SiteInstalled(site) == site.status = "installed"

\* wait(lambda: until_site_installed(site))
UntilSiteInstalled ==
    /\ pc = "wait_site"
    /\ Poll("until_site_installed",
            SiteInstalled(r_sites[loc.site.id]),
            "get_nginx", "Site creation timed out")
    /\ Observe(r_sites[loc.site.id].status = "installed", "site_installed")
    /\ UNCHANGED <<fixedVars, idx, remoteVars>>

\* nginx_config = replace_nginx_variables(forge_api.get_nginx_config(...), ...)
GetNginxConfig ==
    /\ pc = "get_nginx"
    /\ Call("get_nginx_config", NoStr)
    /\ LET nginx_config == r_sites[loc.site.id].nginx
           variables == site_conf.nginx_template_variables
       IN  IF UnsetVariables(nginx_config, variables) = {}
           THEN /\ loc' = [loc EXCEPT !.nginx_config =
                               replace_nginx_variables(nginx_config, variables)]
                /\ Continue("set_nginx")
           ELSE /\ UNCHANGED loc
                /\ Raise("Failed to set nginx config variables")
    /\ UNCHANGED <<fixedVars, idx, w, remoteVars>>

\* forge_api.set_nginx_config(server_id, site["id"], nginx_config); site_id = site["id"]
SetNginxVariables ==
    /\ pc = "set_nginx"
    /\ Call("set_nginx_config", "variables")
    /\ r_sites' = [r_sites EXCEPT ![loc.site.id].nginx = loc.nginx_config]
    /\ loc' = [loc EXCEPT !.site_id = loc.site.id]
    /\ Continue("aliases")
    /\ UNCHANGED <<fixedVars, idx, w, r_templates, r_php, r_daemons, r_jobs,
                   r_certs, r_next>>

\* if set(site_aliases) != set(site_conf["aliases"]): site = forge_api.update_site(...)
AliasesDifferAsLists(site_aliases, aliases) == site_aliases # aliases

\* set(site_aliases) != set(site_conf["aliases"])
AliasesDiffer(site_aliases, aliases) == Range(site_aliases) # Range(aliases)

UpdateAliases ==
    /\ pc = "aliases"
    /\ IF AliasesDiffer(loc.site.aliases, site_conf.aliases)
       THEN /\ Call("update_site", site_conf.aliases)
            /\ r_sites' = [r_sites EXCEPT ![loc.site_id].aliases = site_conf.aliases]
            /\ loc' = [loc EXCEPT !.site = r_sites'[loc.site_id]]
       ELSE UNCHANGED <<calls, r_sites, loc>>
    /\ Continue("custom_nginx")
    /\ UNCHANGED <<fixedVars, idx, w, r_templates, r_php, r_daemons, r_jobs,
                   r_certs, r_next>>

\* The custom nginx file is read and compared with forge_api.get_nginx_config;
\* forge_api.set_nginx_config when they differ.
CustomNginxGet ==
    /\ pc = "custom_nginx"
    /\ IF site_conf.nginx_custom_config = NoStr
       THEN UNCHANGED calls /\ Continue("php_get")
       ELSE IF site_conf.nginx_custom_config \notin DOMAIN files.custom
       THEN UNCHANGED calls /\ Raise("Nginx config file doesn't exist")
       ELSE Call("get_nginx_config", NoStr) /\ Continue("custom_nginx_set")
    /\ loc' = [loc EXCEPT !.nginx_config =
                   IF pc' = "custom_nginx_set" THEN r_sites[loc.site_id].nginx
                   ELSE @]
    /\ UNCHANGED <<fixedVars, idx, w, remoteVars>>

NginxDiffersAlways(existing, content) == TRUE

NginxDiffersNever(existing, content) == FALSE

\* if site_existing_nginx_config != nginx_custom_content
NginxDiffers(existing, content) == existing # content

CustomNginxSet ==
    /\ pc = "custom_nginx_set"
    /\ LET nginx_custom_content == files.custom[site_conf.nginx_custom_config]
       IN  IF NginxDiffers(loc.nginx_config, nginx_custom_content)
           THEN /\ Call("set_nginx_config", "custom")
                /\ r_sites' = [r_sites EXCEPT ![loc.site_id].nginx =
                                   nginx_custom_content]
           ELSE UNCHANGED <<calls, r_sites>>
    /\ Continue("php_get")
    /\ UNCHANGED <<fixedVars, idx, loc, w, r_templates, r_php, r_daemons,
                   r_jobs, r_certs, r_next>>

PhpDiffersAlways(declared, current) == declared # NoStr

\* if site_conf["php_version"] and site_conf["php_version"] != site_php_version
PhpDiffers(declared, current) == declared # NoStr /\ declared # current

\* site_php_version = forge_api.get_site_by_id(server_id, site_id)["php_version"]
PhpGet ==
    /\ pc = "php_get"
    /\ Call("get_site", NoStr)
    /\ loc' = [loc EXCEPT !.site_php_version = r_sites[loc.site_id].php_version]
    /\ IF PhpDiffers(site_conf.php_version, r_sites[loc.site_id].php_version)
       THEN Continue("php_list")
       ELSE Continue("repo")
    /\ UNCHANGED <<fixedVars, idx, w, remoteVars>>

\* The body of GET /servers/{id}/php: a version the provider was asked to
\* install and has not taken up yet (status queued) is not in the list.
PhpResponse(php) == SelectSeq(php, LAMBDA p : p.status # "queued")

\* A response lists the version with status installed.
PhpInstalledIn(php, version) ==
    \E i \in 1..Len(php) :
        php[i].version = version /\ php[i].status = "installed"

\* forge_api.get_server_installed_php_versions and the membership test.
PhpList ==
    /\ pc = "php_list"
    /\ Call("get_php", NoStr)
    /\ LET server_php_versions == PhpResponse(r_php)
       IN  /\ IF \E i \in 1..Len(server_php_versions) :
                     server_php_versions[i].version = site_conf.php_version
              THEN Continue("php_set")
              ELSE Continue("php_install_post")
           /\ Observe(PhpInstalledIn(server_php_versions,
                                     site_conf.php_version),
                      "php_installed")
    /\ UNCHANGED <<fixedVars, idx, w, remoteVars>>

\* The server's PHP versions after POST /servers/{id}/php for a version:
\* the provider lists the version at once as installing, or only later.
RemoteInstallPhp(php, version, listed) ==
    IF \E i \in 1..Len(php) : php[i].version = version
    THEN php
    ELSE Append(php, [version |-> version,
                      status |-> IF listed THEN "installing" ELSE "queued"])

\* session.post(f"{forge_uri}/servers/{server_id}/php", ...)
PhpInstallPost ==
    /\ pc = "php_install_post"
    /\ Call("install_php", site_conf.php_version)
    /\ \E listed \in BOOLEAN :
           r_php' = RemoteInstallPhp(r_php, site_conf.php_version, listed)
    /\ Continue("php_install_api")
    /\ UNCHANGED <<fixedVars, idx, loc, w, r_sites, r_templates, r_daemons,
                   r_jobs, r_certs, r_next>>

\* forge_api.install_php_version(server_id, version), wait() entered.
PhpInstallApi ==
    /\ pc = "php_install_api"
    /\ Call("install_php", site_conf.php_version)
    /\ \E listed \in BOOLEAN :
           r_php' = RemoteInstallPhp(r_php, site_conf.php_version, listed)
    /\ w' = WaitStart(DefaultMaxRetries)
    /\ Continue("wait_php")
    /\ UNCHANGED <<fixedVars, idx, loc, r_sites, r_templates, r_daemons,
                   r_jobs, r_certs, r_next>>

\* wait(until_php_installed); next() without a default raises StopIteration
\* when the version is not in the list.
UntilPhpInstalled ==
    /\ pc = "wait_php"
    /\ LET php_versions == PhpResponse(r_php)
           k == FirstIndex(php_versions,
                           LAMBDA p : p.version = site_conf.php_version)
       IN  /\ IF k = 0 /\ w.result = "running"
              THEN /\ PollCall("until_php_installed")
                   /\ w' = [w EXCEPT !.calls = @ + 1]
                   /\ Raise("Failed to install php version: ")
              ELSE Poll("until_php_installed",
                        k # 0 /\ php_versions[k].status = "installed",
                        "php_set",
                        "Failed to install php version: Php installation timed out")
           /\ Observe(PhpInstalledIn(php_versions, site_conf.php_version),
                      "php_installed")
    /\ UNCHANGED <<fixedVars, idx, remoteVars>>

\* session.put(.../sites/{site_id}/php, json={"version": php_version})
PhpSet ==
    /\ pc = "php_set"
    /\ Call("set_site_php", site_conf.php_version)
    /\ r_sites' = [r_sites EXCEPT ![loc.site_id].php_version = site_conf.php_version]
    /\ Continue("repo")
    /\ UNCHANGED <<fixedVars, idx, loc, w, r_templates, r_php, r_daemons,
                   r_jobs, r_certs, r_next>>

\* "branch": site_conf.get("github_branch") or config["github_branch"]
BranchOf(config, conf) ==
    IF "github_branch" \in DOMAIN conf /\ conf.github_branch # NoStr
    THEN conf.github_branch
    ELSE config.github_branch

AttachBranch == BranchOf(cfg, site_conf)

\* session.post(.../sites/{site_id}/git, ...) when clone_repository is set
\* and site["repository"] differs; wait() entered.
AttachRepository ==
    /\ pc = "repo"
    /\ IF site_conf.clone_repository /\ loc.site.repository # cfg.github_repository
       THEN /\ Call("attach_repository",
                    [provider |-> "github", repository |-> cfg.github_repository,
                     branch |-> AttachBranch, composer |-> FALSE])
            /\ r_sites' = [r_sites EXCEPT
                   ![loc.site_id].repository = cfg.github_repository,
                   ![loc.site_id].repository_branch = AttachBranch,
                   ![loc.site_id].repository_status = "installing"]
            /\ loc' = [loc EXCEPT !.site = r_sites'[loc.site_id]]
            /\ w' = WaitStart(DefaultMaxRetries)
            /\ Continue("wait_repo")
       ELSE /\ UNCHANGED <<calls, r_sites, loc, w>>
            /\ Continue("daemons_get")
    /\ UNCHANGED <<fixedVars, idx, r_templates, r_php, r_daemons, r_jobs,
                   r_certs, r_next>>

RepoInstalledOrInstalling(site) ==
    site.repository_status \in {"installed", "installing"}

\* return site["repository_status"] == "installed"
RepoInstalled(site) == site.repository_status = "installed"

\* wait(until_repo_installed)
UntilRepoInstalled ==
    /\ pc = "wait_repo"
    /\ Poll("until_repo_installed",
            RepoInstalled(r_sites[loc.site_id]),
            "daemons_get", "Failed to add repository: Adding repository timed out")
    /\ Observe(r_sites[loc.site_id].repository_status = "installed",
               "repo_installed")
    /\ UNCHANGED <<fixedVars, idx, remoteVars>>

DeclaredCommands == {site_conf.daemons[j].command : j \in 1..Len(site_conf.daemons)}

\* Position after the delete loop, or after the add loop (from = "add").
AfterDaemonLoop(from) ==
    IF from = "delete" /\ site_conf.daemons # <<>> THEN "daemons_add"
    ELSE "scheduler"

SiteDaemonsUnfiltered(daemons, site_dir) == daemons

SiteDaemonsUnderHome(daemons, site_dir) ==
    SelectSeq(daemons, LAMBDA d : d.directory[1] = site_dir[1])

\* [daemon for daemon in response.json()["daemons"] if daemon["directory"] == site_dir]
SiteDaemons(daemons, site_dir) ==
    SelectSeq(daemons, LAMBDA d : d.directory = site_dir)

\* session.get(.../daemons), filtered by directory == site_dir; the call is
\* logged with the daemons of the response.
DaemonsGet ==
    /\ pc = "daemons_get"
    /\ Call("get_daemons", r_daemons)
    /\ LET site_daemons == SiteDaemons(r_daemons, SiteDir(site_conf))
       IN  /\ loc' = [loc EXCEPT !.site_daemons = site_daemons,
                                  !.daemon_ids = <<>>, !.i = 1]
           /\ IF site_daemons # <<>> THEN Continue("daemons_delete")
              ELSE Continue(AfterDaemonLoop("delete"))
    /\ UNCHANGED <<fixedVars, idx, w, remoteVars>>

\* One iteration of "for dm in site_daemons": delete, or keep the id.
DaemonsDelete ==
    /\ pc = "daemons_delete"
    /\ LET dm == loc.site_daemons[loc.i]
           last == loc.i = Len(loc.site_daemons)
       IN  /\ IF dm.command \notin DeclaredCommands
              THEN /\ Call("delete_daemon", dm.id)
                   /\ r_daemons' = SelectSeq(r_daemons, LAMBDA d : d.id # dm.id)
                   /\ loc' = [loc EXCEPT !.i = IF last THEN 1 ELSE @ + 1]
              ELSE /\ UNCHANGED <<calls, r_daemons>>
                   /\ loc' = [loc EXCEPT !.i = IF last THEN 1 ELSE @ + 1,
                                         !.daemon_ids = Append(@, dm.id)]
           /\ IF last THEN Continue(AfterDaemonLoop("delete")) ELSE Continue(pc)
    /\ UNCHANGED <<fixedVars, idx, w, r_sites, r_templates, r_php, r_jobs,
                   r_certs, r_next>>

\* One iteration of "for daemon in site_conf["daemons"]": create when no
\* daemon of site_daemons has the command.
DaemonsAdd ==
    /\ pc = "daemons_add"
    /\ LET daemon == site_conf.daemons[loc.i]
           last == loc.i = Len(site_conf.daemons)
       IN  /\ IF \A j \in 1..Len(loc.site_daemons) :
                     loc.site_daemons[j].command # daemon.command
              THEN /\ Call("create_daemon", daemon.command)
                   /\ r_daemons' = Append(r_daemons,
                          [id |-> r_next.daemon, command |-> daemon.command,
                           user |-> "forge", directory |-> SiteDir(site_conf),
                           startsecs |-> 1])
                   /\ r_next' = [r_next EXCEPT !.daemon = @ + 1]
                   /\ loc' = [loc EXCEPT !.i = IF last THEN 1 ELSE @ + 1,
                                         !.daemon_ids = Append(@, r_next.daemon)]
              ELSE /\ UNCHANGED <<calls, r_daemons, r_next>>
                   /\ loc' = [loc EXCEPT !.i = IF last THEN 1 ELSE @ + 1]
           /\ IF last THEN Continue(AfterDaemonLoop("add")) ELSE Continue(pc)
    /\ UNCHANGED <<fixedVars, idx, w, r_sites, r_templates, r_php, r_jobs, r_certs>>

\* scheduler_cmd from the site's php_version (project_type "php" only).
SchedulerSite ==
    /\ pc = "scheduler"
    /\ IF site_conf.project_type = "php"
       THEN /\ Call("get_site", NoStr)
            /\ loc' = [loc EXCEPT !.scheduler_cmd =
                   <<format_php_version(r_sites[loc.site_id].php_version),
                     SiteDir(site_conf), "artisan schedule:run">>]
            /\ Continue("scheduler_jobs")
       ELSE /\ UNCHANGED <<calls, loc>>
            /\ Continue("script")
    /\ UNCHANGED <<fixedVars, idx, w, remoteVars>>

\* server_jobs = forge_api.get_server_jobs(server_id) and the match by command.
SchedulerJobs ==
    /\ pc = "scheduler_jobs"
    /\ Call("get_jobs", NoStr)
    /\ LET k == FirstIndex(r_jobs, LAMBDA job : job.command = loc.scheduler_cmd)
       IN  loc' = [loc EXCEPT !.current_scheduler_job =
                       IF k = 0 THEN None ELSE r_jobs[k]]
    /\ Continue("scheduler_apply")
    /\ UNCHANGED <<fixedVars, idx, w, remoteVars>>

SchedulerCreateUnflagged(conf, current_scheduler_job) ==
    current_scheduler_job = None

\* if site_conf["laravel_scheduler"] and not current_scheduler_job:
SchedulerCreate(conf, current_scheduler_job) ==
    conf.laravel_scheduler /\ current_scheduler_job = None

\* elif not site_conf["laravel_scheduler"] and current_scheduler_job:
SchedulerDelete(conf, current_scheduler_job) ==
    ~conf.laravel_scheduler /\ current_scheduler_job # None

\* forge_api.create_job / forge_api.delete_job / neither.
SchedulerApply ==
    /\ pc = "scheduler_apply"
    /\ IF SchedulerCreate(site_conf, loc.current_scheduler_job)
       THEN /\ Call("create_job", "minutely")
            /\ r_jobs' = Append(r_jobs, [id |-> r_next.job, user |-> "forge",
                                         command |-> loc.scheduler_cmd,
                                         frequency |-> "minutely"])
            /\ r_next' = [r_next EXCEPT !.job = @ + 1]
       ELSE IF SchedulerDelete(site_conf, loc.current_scheduler_job)
       THEN /\ Call("delete_job", loc.current_scheduler_job.id)
            /\ r_jobs' = SelectSeq(r_jobs,
                             LAMBDA job : job.id # loc.current_scheduler_job.id)
            /\ UNCHANGED r_next
       ELSE UNCHANGED <<calls, r_jobs, r_next>>
    /\ Continue("script")
    /\ UNCHANGED <<fixedVars, idx, loc, w, r_sites, r_templates, r_php,
                   r_daemons, r_certs>>

\* session.put(.../deployment/script, ...) when deployment_commands is given.
DeploymentScriptPut ==
    /\ pc = "script"
    /\ IF site_conf.deployment_commands # NoStr
       THEN LET deployment_script ==
                    DeploymentScript(SiteDir(site_conf),
                                     site_conf.deployment_commands, loc.daemon_ids)
            IN  /\ Call("set_deployment_script", deployment_script)
                /\ r_sites' = [r_sites EXCEPT ![loc.site_id].script =
                                   deployment_script]
       ELSE UNCHANGED <<calls, r_sites>>
    /\ Continue("env")
    /\ UNCHANGED <<fixedVars, idx, loc, w, r_templates, r_php, r_daemons,
                   r_jobs, r_certs, r_next>>

\* site_env of the site in hand; secrets is None in these runs, so that the
\* env file is parsed as it was read.
SiteEnv ==
    MergedEnv(IF site_conf.env_file # NoStr
              THEN files.env[site_conf.env_file] ELSE NoText,
              site_conf.environment)

\* session.put(.../env, json={"content": env_str}) when env_str is not empty.
EnvPut ==
    /\ pc = "env"
    /\ IF site_conf.env_file # NoStr /\ site_conf.env_file \notin DOMAIN files.env
       THEN /\ UNCHANGED <<calls, r_sites>>
            /\ Raise("Failed to set environment variables: file not found")
       ELSE /\ IF EnvStr(SiteEnv) # EmptyText
               THEN /\ Call("set_env", EnvStr(SiteEnv))
                    /\ r_sites' =
                           [r_sites EXCEPT ![loc.site_id].env = EnvStr(SiteEnv)]
               ELSE UNCHANGED <<calls, r_sites>>
            /\ Continue("certificate")
    /\ UNCHANGED <<fixedVars, idx, loc, w, r_templates, r_php, r_daemons,
                   r_jobs, r_certs, r_next>>

\* [site_conf["site_domain"], *site_conf["aliases"]]
CertificateDomains == <<site_conf.site_domain>> \o site_conf.aliases

\* The certificates of a site as list_certificates returns them.
SiteCertificates(site_id) ==
    LET own == SelectSeq(r_certs, LAMBDA c : c.site = site_id)
    IN  [i \in 1..Len(own) |-> own[i].cert]

\* forge_api.list_certificates and get_domains_certificate.
CertificateList ==
    /\ pc = "certificate"
    /\ IF site_conf.certificate
       THEN LET site_certificate ==
                    get_domains_certificate(SiteCertificates(loc.site_id),
                                            StrList(CertificateDomains))
            IN  /\ Call("list_certificates", NoStr)
                /\ loc' = [loc EXCEPT
                       !.site_certificate = site_certificate,
                       !.observed = @ \o
                           (IF site_certificate # None
                               /\ site_certificate.status = "installed"
                            THEN <<[site |-> idx, seen |-> "installed"]>>
                            ELSE <<>>) \o
                           (IF site_certificate # None /\ site_certificate.active
                            THEN <<[site |-> idx, seen |-> "active"]>>
                            ELSE <<>>)]
                /\ IF site_certificate = None
                   THEN Continue("certificate_create")
                   ELSE Continue("certificate_activate")
       ELSE /\ UNCHANGED <<calls, loc>>
            /\ Continue("deploy")
    /\ UNCHANGED <<fixedVars, idx, w, remoteVars>>

\* site_certificate = forge_api.create_certificate(...), wait() entered.
CertificateCreate ==
    /\ pc = "certificate_create"
    /\ LET cert == RemoteCert(Len(r_certs) + 1, CertificateDomains,
                              "installing", FALSE)
       IN  /\ Call("create_certificate", CertificateDomains)
           /\ r_certs' = Append(r_certs, [site |-> loc.site_id, cert |-> cert])
           /\ loc' = [loc EXCEPT !.site_certificate = cert]
    /\ w' = WaitStart(DefaultMaxRetries)
    /\ Continue("wait_certificate")
    /\ UNCHANGED <<fixedVars, idx, r_sites, r_templates, r_php, r_daemons,
                   r_jobs, r_next>>

\* wait(lambda: until_cert_installed(site_certificate["id"]))
UntilCertInstalled ==
    /\ pc = "wait_certificate"
    /\ LET installed == r_certs[loc.site_certificate.id].cert.status = "installed"
       IN  /\ Poll("until_cert_installed", installed,
                   "certificate_activate", "Applying certificate timed out")
           /\ loc' = [loc EXCEPT !.observed =
                          IF installed /\ w.result = "running"
                          THEN Append(@, [site |-> idx, seen |-> "installed"])
                          ELSE @]
    /\ UNCHANGED <<fixedVars, idx, remoteVars>>

ActivationNeededInverted(site_certificate) == site_certificate.active = TRUE

\* if site_certificate["active"] == False
ActivationNeeded(site_certificate) == site_certificate.active = FALSE

\* forge_api.activate_certificate(server_id, site_id, site_certificate["id"])
\* when the certificate found or created is not active.
CertificateActivate ==
    /\ pc = "certificate_activate"
    /\ IF ActivationNeeded(loc.site_certificate)
       THEN /\ Call("activate_certificate", loc.site_certificate.id)
            /\ r_certs' = [r_certs EXCEPT
                   ![loc.site_certificate.id].cert.activation_status =
                       IF @ = "activated" THEN @ ELSE "activating"]
       ELSE UNCHANGED <<calls, r_certs>>
    /\ Continue("deploy")
    /\ UNCHANGED <<fixedVars, idx, loc, w, r_sites, r_templates, r_php,
                   r_daemons, r_jobs, r_next>>

\* End of the loop body: the next site_conf, or the end of main() and exit 0.
EndOfSite ==
    IF idx = Len(cfg.sites)
    THEN pc' = "exit" /\ exit_code' = 0 /\ UNCHANGED <<error, idx>>
    ELSE idx' = idx + 1 /\ Continue("site")

DeployWantedAlways(conf) == TRUE

\* if site_conf["clone_repository"]:
DeployWanted(conf) == conf.clone_repository

\* session.post(.../deployment/deploy) when clone_repository is set, wait()
\* entered with max_retries=-1.
DeployTrigger ==
    /\ pc = "deploy"
    /\ IF DeployWanted(site_conf)
       THEN /\ Call("deploy", NoStr)
            /\ r_sites' = [r_sites EXCEPT ![loc.site_id].deployment_status = "queued"]
            /\ loc' = [loc EXCEPT !.site = r_sites'[loc.site_id]]
            /\ w' = WaitStart(-1)
            /\ Continue("wait_deploy")
            /\ UNCHANGED idx
       ELSE /\ UNCHANGED <<calls, r_sites, loc, w>>
            /\ EndOfSite
    /\ UNCHANGED <<fixedVars, r_templates, r_php, r_daemons, r_jobs, r_certs,
                   r_next>>

\* wait(until_site_deployed, max_retries=-1)
UntilSiteDeployed ==
    /\ pc = "wait_deploy"
    /\ Poll("until_site_deployed",
            r_sites[loc.site_id].deployment_status = NoStr,
            "deployment_log", "Deploying site timed out")
    /\ Observe(r_sites[loc.site_id].deployment_status = NoStr, "deployed")
    /\ UNCHANGED <<fixedVars, idx, remoteVars>>

LogErrorRaisedOn404(status_code) == status_code >= 400

\* response.raise_for_status() raised and response.status_code != 404
LogErrorRaised(status_code) == status_code >= 400 /\ status_code # 404

\* session.get(.../deployment/log); a 404 is passed over.
DeploymentLog ==
    /\ pc = "deployment_log"
    /\ \E status_code \in {200, 404} :
           /\ Call("get_deployment_log", status_code)
           /\ IF LogErrorRaised(status_code)
              THEN Raise("Failed to get deployment log")
              ELSE Continue("deployment_history")
    /\ UNCHANGED <<fixedVars, idx, loc, w, remoteVars>>

DeploymentFailedOnError(deployment) == deployment.status = "error"

\* if deployment["status"] == "failed"
DeploymentFailed(deployment) == deployment.status = "failed"

\* session.get(.../deployment-history).json()["deployments"][0]
DeploymentHistory ==
    /\ pc = "deployment_history"
    /\ Call("get_deployment_history", NoStr)
    /\ LET deployments == r_sites[loc.site_id].history
       IN  IF deployments = <<>>
           THEN Raise("IndexError") /\ UNCHANGED idx
           ELSE IF DeploymentFailed(deployments[1])
           THEN Raise("Deployment failed") /\ UNCHANGED idx
           ELSE EndOfSite
    /\ UNCHANGED <<fixedVars, loc, w, remoteVars>>

(***************************************************************************)
(* Requests that fail.                                                     *)
(***************************************************************************)

\* The request that the statement at pc issues in this state, NoStr when it
\* issues none.
RequestAt ==
    CASE pc = "start" -> "get_servers"
      [] pc = "get_sites" -> "get_sites"
      [] pc = "get_templates" -> "get_nginx_templates"
      [] pc = "create_template" -> "create_nginx_template"
      [] pc = "get_template" -> "get_nginx_template_by_id"
      [] pc = "update_template" -> "update_nginx_template"
      [] pc = "create_site" -> "create_site"
      [] pc = "wait_site" -> "until_site_installed"
      [] pc = "get_nginx" -> "get_nginx_config"
      [] pc = "set_nginx" -> "set_nginx_config"
      [] pc = "aliases" ->
            IF AliasesDiffer(loc.site.aliases, site_conf.aliases)
            THEN "update_site" ELSE NoStr
      [] pc = "custom_nginx" ->
            IF /\ site_conf.nginx_custom_config # NoStr
               /\ site_conf.nginx_custom_config \in DOMAIN files.custom
            THEN "get_nginx_config" ELSE NoStr
      [] pc = "custom_nginx_set" ->
            IF NginxDiffers(loc.nginx_config,
                            files.custom[site_conf.nginx_custom_config])
            THEN "set_nginx_config" ELSE NoStr
      [] pc = "php_get" -> "get_site"
      [] pc = "php_list" -> "get_php"
      [] pc \in {"php_install_post", "php_install_api"} -> "install_php"
      [] pc = "wait_php" -> "until_php_installed"
      [] pc = "php_set" -> "set_site_php"
      [] pc = "repo" ->
            IF /\ site_conf.clone_repository
               /\ loc.site.repository # cfg.github_repository
            THEN "attach_repository" ELSE NoStr
      [] pc = "wait_repo" -> "until_repo_installed"
      [] pc = "daemons_get" -> "get_daemons"
      [] pc = "daemons_delete" ->
            IF loc.site_daemons[loc.i].command \notin DeclaredCommands
            THEN "delete_daemon" ELSE NoStr
      [] pc = "daemons_add" ->
            IF \A j \in 1..Len(loc.site_daemons) :
                   loc.site_daemons[j].command # site_conf.daemons[loc.i].command
            THEN "create_daemon" ELSE NoStr
      [] pc = "scheduler" ->
            IF site_conf.project_type = "php" THEN "get_site" ELSE NoStr
      [] pc = "scheduler_jobs" -> "get_jobs"
      [] pc = "scheduler_apply" ->
            IF SchedulerCreate(site_conf, loc.current_scheduler_job)
            THEN "create_job"
            ELSE IF SchedulerDelete(site_conf, loc.current_scheduler_job)
            THEN "delete_job" ELSE NoStr
      [] pc = "script" ->
            IF site_conf.deployment_commands # NoStr
            THEN "set_deployment_script" ELSE NoStr
      [] pc = "env" ->
            IF /\ site_conf.env_file # NoStr => site_conf.env_file \in DOMAIN files.env
               /\ EnvStr(SiteEnv) # EmptyText
            THEN "set_env" ELSE NoStr
      [] pc = "certificate" ->
            IF site_conf.certificate THEN "list_certificates" ELSE NoStr
      [] pc = "certificate_create" -> "create_certificate"
      [] pc = "wait_certificate" -> "until_cert_installed"
      [] pc = "certificate_activate" ->
            IF ActivationNeeded(loc.site_certificate)
            THEN "activate_certificate" ELSE NoStr
      [] pc = "deploy" -> IF site_conf.clone_repository THEN "deploy" ELSE NoStr
      [] pc = "wait_deploy" -> "until_site_deployed"
      [] pc = "deployment_log" -> "get_deployment_log"
      [] pc = "deployment_history" -> "get_deployment_history"
      [] OTHER -> NoStr

RemoteFailureIgnored ==
    /\ RequestAt # NoStr
    /\ \A i \in 1..Len(calls) : calls[i].ok
    /\ calls' = Append(calls, [op |-> RequestAt, site |-> idx, arg |-> NoStr,
                               ok |-> FALSE])
    /\ UNCHANGED <<fixedVars, pc, exit_code, error, idx, loc, w, remoteVars>>

\* The request at pc fails (transport failure, or a status that
\* raise_for_status rejects; for the deployment log any status but 404): the
\* exception reaches __main__. The server is taken not to have acted.
RemoteFailure ==
    /\ RequestAt # NoStr
    /\ calls' = Append(calls, [op |-> RequestAt, site |-> idx, arg |-> NoStr,
                               ok |-> FALSE])
    /\ Raise("Request failed")
    /\ UNCHANGED <<fixedVars, idx, loc, w, remoteVars>>

(***************************************************************************)
(* The provider: asynchronous operations reach their final status.         *)
(***************************************************************************)

ProviderSiteInstalled ==
    /\ \E id \in 1..Len(r_sites) :
        /\ r_sites[id].status = "installing"
        /\ r_sites' = [r_sites EXCEPT ![id].status = "installed"]
    /\ UNCHANGED <<fixedVars, localVars, w, r_templates, r_php, r_daemons,
                   r_jobs, r_certs, r_next>>

\* The provider takes up a queued PHP installation: the version is listed.
ProviderPhpListed ==
    /\ \E i \in 1..Len(r_php) :
        /\ r_php[i].status = "queued"
        /\ r_php' = [r_php EXCEPT ![i].status = "installing"]
    /\ UNCHANGED <<fixedVars, localVars, w, r_sites, r_templates, r_daemons,
                   r_jobs, r_certs, r_next>>

ProviderPhpInstalled ==
    /\ \E i \in 1..Len(r_php) :
        /\ r_php[i].status = "installing"
        /\ r_php' = [r_php EXCEPT ![i].status = "installed"]
    /\ UNCHANGED <<fixedVars, localVars, w, r_sites, r_templates, r_daemons,
                   r_jobs, r_certs, r_next>>

ProviderRepositoryInstalled ==
    /\ \E id \in 1..Len(r_sites) :
        /\ r_sites[id].repository_status = "installing"
        /\ r_sites' = [r_sites EXCEPT ![id].repository_status = "installed"]
    /\ UNCHANGED <<fixedVars, localVars, w, r_templates, r_php, r_daemons,
                   r_jobs, r_certs, r_next>>

ProviderCertInstalled ==
    /\ \E id \in 1..Len(r_certs) :
        /\ r_certs[id].cert.status = "installing"
        /\ r_certs' = [r_certs EXCEPT ![id].cert.status = "installed"]
    /\ UNCHANGED <<fixedVars, localVars, w, r_sites, r_templates, r_php,
                   r_daemons, r_jobs, r_next>>

\* The certificate becomes the site's active one; the site's other
\* certificates stop being active.
ProviderCertActivated ==
    /\ \E id \in 1..Len(r_certs) :
        /\ r_certs[id].cert.activation_status = "activating"
        /\ r_certs[id].cert.status = "installed"
        /\ r_certs' = [j \in 1..Len(r_certs) |->
               IF j = id
               THEN [r_certs[j] EXCEPT !.cert.active = TRUE,
                                       !.cert.activation_status = "activated"]
               ELSE IF r_certs[j].site = r_certs[id].site
               THEN [r_certs[j] EXCEPT !.cert.active = FALSE,
                                       !.cert.activation_status = NoStr]
               ELSE r_certs[j]]
    /\ UNCHANGED <<fixedVars, localVars, w, r_sites, r_templates, r_php,
                   r_daemons, r_jobs, r_next>>

\* A deployment ends: deployment_status returns to null and the deployment
\* heads the history as finished or failed.
ProviderDeploymentEnded ==
    /\ \E id \in 1..Len(r_sites) : \E outcome \in {"finished", "failed"} :
        /\ r_sites[id].deployment_status # NoStr
        /\ r_sites' = [r_sites EXCEPT
               ![id].deployment_status = NoStr,
               ![id].history = <<[status |-> outcome]>> \o @]
    /\ UNCHANGED <<fixedVars, localVars, w, r_templates, r_php, r_daemons,
                   r_jobs, r_certs, r_next>>

\* No asynchronous operation of the provider is pending.
Quiescent ==
    /\ \A id \in 1..Len(r_sites) :
        /\ r_sites[id].status = "installed"
        /\ r_sites[id].repository_status # "installing"
        /\ r_sites[id].deployment_status = NoStr
        /\ ~r_sites[id].deploy_accepted
    /\ \A i \in 1..Len(r_php) : r_php[i].status = "installed"
    /\ \A id \in 1..Len(r_certs) :
        /\ r_certs[id].cert.status = "installed"
        /\ r_certs[id].cert.activation_status # "activating"

MaxRuns == 2

\* The script is started again with the same configuration after a run that
\* ended with exit code 0, once the provider is quiescent.
StartNextRun ==
    /\ pc = "exit" /\ exit_code = 0
    /\ run < MaxRuns
    /\ Quiescent
    /\ run' = run + 1
    /\ pc' = "start" /\ idx' = 0 /\ loc' = NoLocals /\ calls' = <<>>
    /\ exit_code' = -1 /\ error' = NoStr /\ w' = NoWait
    /\ UNCHANGED <<cfg, files, r_servers, certVars, succAt, remoteVars, pureVars>>

(***************************************************************************)
(* Configurations and initial servers of Spec.                             *)
(***************************************************************************)

MaxDaemons == 2

DaemonCommands == {"queue:work", "horizon", "reverb"}

DaemonLists == UNION {[1..n -> DaemonCommands] : n \in 0..MaxDaemons}

LocalTemplate == <<Lit("server"), Lit("8080")>>
TokenTemplate == <<Lit("server"), Var("port")>>
StaleTemplate == <<Lit("server-old"), Lit("8080")>>

\* site.get("nginx_template_variables", {}) of a document that passed the
\* validation: the schema has no such key, the default is taken.
NoVariables == [name \in {} |-> NoStr]

\* site.get("laravel_scheduler") of a document that passed the validation:
\* the schema has no such key, the value is None, which is falsy.
NoScheduler == FALSE

\* The template file of the scenario: with a {{port}} token or without.
TemplateOf(k) == IF k.token THEN TokenTemplate ELSE LocalTemplate
CustomConfig == <<Lit("custom-server")>>

\* What a scenario varies; Defaults is the fresh PHP site of the end-to-end
\* scenario: new site, PHP version to install, one daemon, deployment
\* commands, certificate, repository.
Defaults ==
    [server |-> TRUE, present |-> FALSE, template |-> "same", file |-> TRUE,
     token |-> FALSE, php |-> "absent", site_php |-> "php82",
     php_declared |-> TRUE, existing |-> <<>>, declared |-> <<"queue:work">>,
     site_aliases |-> <<"www.a.test">>, aliases |-> <<"www.a.test">>,
     certificate |-> TRUE, certs |-> "none",
     job |-> FALSE, custom |-> "none", env |-> "none", clone |-> TRUE,
     repository |-> "none", commands |-> TRUE, type |-> "php",
     second |-> FALSE, twice |-> FALSE]

\* The site already converged to Defaults' configuration.
Converged ==
    [Defaults EXCEPT !.present = TRUE, !.php = "installed", !.site_php = "php83",
                     !.existing = <<"queue:work">>, !.certs = "match_active",
                     !.repository = "same"]

SiteConfOf(k) ==
    [site_domain |-> "a.test", root_dir |-> <<".">>, web_dir |-> <<"public">>,
     project_type |-> k.type,
     php_version |-> IF k.php_declared THEN "php83" ELSE NoStr,
     deployment_commands |-> IF k.commands THEN "composer install" ELSE NoStr,
     daemons |-> [i \in 1..Len(k.declared) |-> [command |-> k.declared[i]]],
     laravel_scheduler |-> NoScheduler,
     environment |-> IF k.env = "none" THEN NoText
                     ELSE <<<<"app_env", Eq, "production">>,
                            <<"APP_KEY", Eq, "inline">>>>,
     env_file |-> IF k.env \in {"both", "missing"} THEN ".env.deploy" ELSE NoStr,
     aliases |-> k.aliases,
     nginx_template |-> "default",
     nginx_template_variables |-> NoVariables,
     nginx_custom_config |-> IF k.custom = "none" THEN NoStr ELSE "nginx.conf",
     certificate |-> k.certificate,
     clone_repository |-> k.clone]

\* A static second site: html, no repository, no certificate.
SecondSiteConf ==
    [site_domain |-> "b.test", root_dir |-> <<".", "docs">>, web_dir |-> <<"public">>,
     project_type |-> "html", php_version |-> NoStr,
     deployment_commands |-> NoStr, daemons |-> <<>>,
     laravel_scheduler |-> NoScheduler, environment |-> NoText,
     env_file |-> NoStr,
     aliases |-> <<>>, nginx_template |-> "default",
     nginx_template_variables |-> NoVariables,
     nginx_custom_config |-> NoStr, certificate |-> FALSE,
     clone_repository |-> FALSE]

ConfigOf(k) ==
    [server_name |-> "prod", github_repository |-> "acme/app",
     github_branch |-> "main",
     sites |-> <<SiteConfOf(k)>>
               \o (IF k.twice THEN <<SiteConfOf(k)>> ELSE <<>>)
               \o (IF k.second THEN <<SecondSiteConf>> ELSE <<>>)]

\* A directory without files.
NoFiles == [name \in {} |-> <<>>]

FilesOf(k) ==
    [templates |-> IF k.file THEN ("default" :> TemplateOf(k)) ELSE NoFiles,
     custom |-> IF k.custom \in {"same", "different"}
                THEN ("nginx.conf" :> CustomConfig)
                ELSE NoFiles,
     env |-> IF k.env = "both"
             THEN (".env.deploy" :>
                       <<<<"APP_KEY", Eq, "file">>, <<"db_host", Eq, "db">>>>)
             ELSE NoFiles]

\* The site a.test as the server holds it before the first run.
ExistingSite(k) ==
    LET payload == [domain |-> "a.test", aliases |-> k.site_aliases,
                    directory |-> WebDir(SiteConfOf(k)), project_type |-> k.type]
        attached == k.repository # "none"
    IN  [NewSite(1, payload, replace_nginx_variables(LocalTemplate, NoVariables))
         EXCEPT !.status = "installed",
                !.php_version = k.site_php,
                !.nginx = IF k.custom = "same" THEN CustomConfig ELSE @,
                !.repository = CASE k.repository = "same" -> "acme/app"
                                 [] k.repository = "other" -> "acme/old"
                                 [] OTHER -> NoStr,
                !.repository_status = IF attached THEN "installed" ELSE NoStr,
                !.history = IF attached THEN <<[status |-> "finished"]>> ELSE <<>>]

ExistingCerts(k) ==
    CASE k.certs = "match_active" ->
             <<[site |-> 1, cert |->
                 RemoteCert(1, <<"www.a.test", "a.test">>, "installed", TRUE)]>>
      [] k.certs = "match_inactive" ->
             <<[site |-> 1, cert |->
                 RemoteCert(1, <<"a.test", "www.a.test">>, "installed", FALSE)]>>
      [] k.certs = "match_installing" ->
             <<[site |-> 1, cert |->
                 RemoteCert(1, <<"a.test", "www.a.test">>, "installing", FALSE)]>>
      [] k.certs = "subset_active" ->
             <<[site |-> 1, cert |-> RemoteCert(1, <<"a.test">>, "installed", TRUE)]>>
      [] OTHER -> <<>>

\* A daemon of another site's directory, then the site's own daemons.
ExistingDaemons(k) ==
    <<[id |-> 1, command |-> "queue:work", user |-> "forge",
       directory |-> <<"/home/forge", "other.test">>, startsecs |-> 1]>>
    \o [i \in 1..Len(k.existing) |->
           [id |-> i + 1, command |-> k.existing[i], user |-> "forge",
            directory |-> SiteDir(SiteConfOf(k)), startsecs |-> 1]]

ExistingJobs(k) ==
    IF k.job
    THEN <<[id |-> 1, user |-> "forge",
            command |-> <<format_php_version(IF k.php_declared THEN "php83"
                                             ELSE k.site_php),
                          SiteDir(SiteConfOf(k)), "artisan schedule:run">>,
            frequency |-> "minutely"]>>
    ELSE <<>>

AliasLists ==
    {<<>>, <<"www.a.test">>, <<"www.a.test", "m.a.test">>,
     <<"m.a.test", "www.a.test">>, <<"www.a.test", "www.a.test">>}

Scenarios ==
    \* the new site: template on the server or not, local file or not,
    \* {{port}} token in the template or not, PHP version on the server or not
    {[Defaults EXCEPT !.template = t, !.file = f, !.token = v] :
        t \in {"absent", "same", "different"}, f \in BOOLEAN, v \in BOOLEAN}
    \cup {[Defaults EXCEPT !.php = p, !.job = j, !.second = z] :
        p \in {"absent", "installing", "installed"}, j \in BOOLEAN, z \in BOOLEAN}
    \cup {[Defaults EXCEPT !.custom = c, !.env = e, !.commands = m] :
        c \in {"none", "different", "missing"}, e \in {"none", "inline", "both"},
        m \in BOOLEAN}
    \cup {[Defaults EXCEPT !.server = FALSE]}
    \* the existing site: daemons on the server and declared
    \cup {[Converged EXCEPT !.existing = e, !.declared = d, !.certificate = FALSE] :
        e \in DaemonLists, d \in DaemonLists}
    \* the existing site: certificates, aliases
    \cup {[Converged EXCEPT !.certs = c, !.aliases = a, !.site_aliases = b] :
        c \in {"none", "match_active", "match_inactive", "match_installing",
               "subset_active"},
        a \in {<<"www.a.test">>, <<>>}, b \in {<<"www.a.test">>, <<>>}}
    \* the existing site: alias lists in another order, with a duplicate
    \cup {[Converged EXCEPT !.aliases = a, !.site_aliases = b,
                            !.certificate = FALSE] :
        a \in AliasLists, b \in AliasLists}
    \* the existing site: PHP, repository, scheduler, type
    \cup {[Converged EXCEPT !.site_php = v, !.php = p, !.repository = r,
                            !.clone = c] :
        v \in PhpVersions, p \in {"absent", "installed"},
        r \in {"none", "same", "other"}, c \in BOOLEAN}
    \cup {[Converged EXCEPT !.site_php = v, !.job = j, !.type = t,
                            !.php_declared = d] :
        v \in PhpVersions, j \in BOOLEAN, t \in {"php", "html"}, d \in BOOLEAN}
    \cup {[Converged EXCEPT !.custom = c, !.env = e, !.second = z] :
        c \in {"none", "same", "different"}, e \in {"none", "both", "missing"},
        z \in BOOLEAN}
    \* the same site block declared twice (the schema does not enforce
    \* unique site_domain values), for a new and for an existing site
    \cup {[Defaults EXCEPT !.twice = TRUE], [Converged EXCEPT !.twice = TRUE]}

\* The configuration, the local files and the server of scenario k.
RunData(k) ==
    /\ cfg = ConfigOf(k)
    /\ files = FilesOf(k)
    /\ r_servers = IF k.server THEN {"prod", "staging"} ELSE {"staging"}
    /\ r_sites = IF k.present THEN <<ExistingSite(k)>> ELSE <<>>
    /\ r_templates =
           CASE k.template = "same" ->
                    <<[id |-> 1, name |-> "default", content |-> TemplateOf(k)]>>
             [] k.template = "different" ->
                    <<[id |-> 1, name |-> "default", content |-> StaleTemplate]>>
             [] OTHER -> <<>>
    /\ r_php = <<[version |-> "php82", status |-> "installed"]>>
           \o (IF k.php = "absent" THEN <<>>
               ELSE <<[version |-> "php83", status |-> k.php]>>)
    /\ r_daemons = ExistingDaemons(k)
    /\ r_jobs = ExistingJobs(k)
    /\ r_certs = IF k.present THEN ExistingCerts(k) ELSE <<>>
    /\ r_next = [daemon |-> Len(k.existing) + 2, job |-> 2]

Init ==
    /\ \E k \in Scenarios : RunData(k)
    /\ pc = "start" /\ run = 1 /\ idx = 0 /\ loc = NoLocals
    /\ calls = <<>> /\ exit_code = -1 /\ error = NoStr
    /\ IdleWait
    /\ IdleCert
    /\ IdlePure

Next ==
    \/ GetServers \/ GetSites \/ SiteLookup
    \/ GetTemplates \/ CreateTemplate \/ GetTemplate \/ UpdateTemplate
    \/ CreateSite \/ UntilSiteInstalled \/ GetNginxConfig \/ SetNginxVariables
    \/ UpdateAliases \/ CustomNginxGet \/ CustomNginxSet
    \/ PhpGet \/ PhpList \/ PhpInstallPost \/ PhpInstallApi
    \/ UntilPhpInstalled \/ PhpSet
    \/ AttachRepository \/ UntilRepoInstalled
    \/ DaemonsGet \/ DaemonsDelete \/ DaemonsAdd
    \/ SchedulerSite \/ SchedulerJobs \/ SchedulerApply
    \/ DeploymentScriptPut \/ EnvPut
    \/ CertificateList \/ CertificateCreate \/ UntilCertInstalled
    \/ CertificateActivate
    \/ DeployTrigger \/ UntilSiteDeployed \/ DeploymentLog \/ DeploymentHistory
    \/ StartNextRun
    \/ ProviderSiteInstalled \/ ProviderPhpListed \/ ProviderPhpInstalled
    \/ ProviderRepositoryInstalled \/ ProviderCertInstalled
    \/ ProviderCertActivated \/ ProviderDeploymentEnded

Spec == Init /\ [][Next]_vars

\* The deploy request as a provider answers it that has accepted the
\* deployment without having started it: the site's deployment_status is
\* still null in the response and for some time after it.
DeployTriggerDelayed ==
    /\ pc = "deploy"
    /\ DeployWanted(site_conf)
    /\ Call("deploy", NoStr)
    /\ r_sites' = [r_sites EXCEPT ![loc.site_id].deploy_accepted = TRUE]
    /\ loc' = [loc EXCEPT !.site = r_sites'[loc.site_id]]
    /\ w' = WaitStart(-1)
    /\ Continue("wait_deploy")
    /\ UNCHANGED <<fixedVars, idx, r_templates, r_php, r_daemons, r_jobs,
                   r_certs, r_next>>

\* The provider starts an accepted deployment.
ProviderDeploymentStarted ==
    /\ \E id \in 1..Len(r_sites) :
        /\ r_sites[id].deploy_accepted
        /\ r_sites' = [r_sites EXCEPT ![id].deploy_accepted = FALSE,
                                      ![id].deployment_status = "queued"]
    /\ UNCHANGED <<fixedVars, localVars, w, r_templates, r_php, r_daemons,
                   r_jobs, r_certs, r_next>>

NextLag == Next \/ DeployTriggerDelayed \/ ProviderDeploymentStarted

SpecLag == Init /\ [][NextLag]_vars

\* The run in which any request may fail.
NextFail == Next \/ RemoteFailure

SpecFail == Init /\ [][NextFail]_vars

(***************************************************************************)
(* SpecSecrets: the secrets phase of main() (replace_secrets_yaml on the   *)
(* loaded document, then the validation) on documents of bounded nesting,  *)
(* followed by the requests main() issues before the site loop.            *)
(***************************************************************************)

\* A YAML value with its Python type. A str and the text of a number are
\* sequences of atoms, a dict is the sequence of its items, a list the
\* sequence of its elements.
YStr(atoms) == [t |-> "str", v |-> atoms]
YInt(digits) == [t |-> "int", v |-> digits]
YList(items) == [t |-> "list", v |-> items]
YDict(items) == [t |-> "dict", v |-> items]

\* The outcome of a call that raised ValueError.
Raised == [t |-> "raise", v |-> <<>>]

\* key in d, d[key]
DictHas(d, key) == \E i \in 1..Len(d) : d[i][1] = key
DictGet(d, key) == d[CHOOSE i \in 1..Len(d) : d[i][1] = key][2]

\* An atom of a str is either one whole match of the pattern
\* \$\{\{\s*secrets\.(\w+)\s*\}\} or text that holds no match: group(1) of
\* the match, NoStr for other text.
SecretRef(atom) ==
    CASE atom = "${{ secrets.api_key }}" -> "api_key"
      [] atom = "${{secrets.DB_PASS}}" -> "DB_PASS"
      [] OTHER -> NoStr

SecretNameAsWritten(match) == <<match>>

\* secret_name = match.group(1).upper()
SecretName(match) == <<Upper(match)>>

\* The matches of a str for which replace_match raises.
UnsetSecrets(s, secrets) ==
    {i \in 1..Len(s) : /\ SecretRef(s[i]) # NoStr
                       /\ ~DictHas(secrets, SecretName(SecretRef(s[i])))}

RECURSIVE SubSecrets(_, _)
\* pattern.sub(replace_match, data) when no match raises
SubSecrets(s, secrets) ==
    IF s = <<>> THEN <<>>
    ELSE (IF SecretRef(Head(s)) = NoStr THEN <<Head(s)>>
          ELSE DictGet(secrets, SecretName(SecretRef(Head(s)))))
         \o SubSecrets(Tail(s), secrets)

RECURSIVE replace_secrets_yaml(_, _)
\* utils.replace_secrets_yaml; an exception raised for an item leaves the
\* comprehension that asked for it.
replace_secrets_yaml(d, secrets) ==
    CASE d.t = "dict" ->
             LET values == [i \in 1..Len(d.v) |->
                               replace_secrets_yaml(d.v[i][2], secrets)]
             IN  IF \E i \in 1..Len(d.v) : values[i] = Raised THEN Raised
                 ELSE YDict([i \in 1..Len(d.v) |-> <<d.v[i][1], values[i]>>])
      [] d.t = "list" ->
             LET items == [i \in 1..Len(d.v) |->
                              replace_secrets_yaml(d.v[i], secrets)]
             IN  IF \E i \in 1..Len(d.v) : items[i] = Raised THEN Raised
                 ELSE YList(items)
      [] d.t = "str" ->
             IF UnsetSecrets(d.v, secrets) # {} THEN Raised
             ELSE YStr(SubSecrets(d.v, secrets))
      [] OTHER -> d

\* Bound of SpecSecrets: depth of the nesting of lists and dicts.
MaxNest == 2

Leaves ==
    {YStr(<<"prod">>),
     YStr(<<"key=", "${{ secrets.api_key }}">>),
     YStr(<<"${{secrets.DB_PASS}}", "@db">>),
     YInt(<<"8080">>)}

RECURSIVE Values(_)
\* The leaves, and the lists and dicts around the values one level down.
Values(depth) ==
    IF depth = 0 THEN Leaves
    ELSE LET V == Values(depth - 1)
         IN  Leaves
             \cup {YList(<<>>)}
             \cup {YList(<<x>>) : x \in V}
             \cup {YList(<<x, l>>) : x \in V, l \in Leaves}
             \cup {YDict(<<<<"name", x>>>>) : x \in V}
             \cup {YDict(<<<<"name", l>>, <<"sites", x>>>>) : l \in Leaves, x \in V}

\* A deployment file of one site.
ConfigDoc(server_name, environment) ==
    YDict(<<<<"server_name", server_name>>,
            <<"github_repository", YStr(<<"acme/app">>)>>,
            <<"sites", YList(<<YDict(<<<<"site_domain", YStr(<<"a.test">>)>>,
                                       <<"environment", environment>>>>)>>)>>>>)

ConfigDocs ==
    {ConfigDoc(s, e) : s \in {YStr(<<"prod">>), YInt(<<"8080">>)}, e \in Leaves}

\* The values of SECRETS: unset, empty, without any KEY=VALUE line, one
\* secret, two secrets.
SecretsValues ==
    {NoText,
     EmptyText,
     <<<<"garbage">>>>,
     <<<<"api_key", Eq, "s3">>>>,
     <<<<"API_KEY", Eq, "s3">>, <<>>,
       <<" ", "db_pass", " ", Eq, "pw", Eq, "1">>>>}

TopLevelKeys == {"server_name", "github_repository", "github_branch", "sites"}

SiteKeys ==
    {"site_domain", "root_dir", "web_dir", "project_type", "php_version",
     "deployment_commands", "daemons", "environment", "env_file", "aliases",
     "nginx_template", "nginx_config_variables", "nginx_custom_config",
     "certificate", "clone_repository"}

HasType(d, key, type) == DictHas(d.v, key) => DictGet(d.v, key).t = type

\* v.validate(data, normalize=True) against schema.py, for the keys the
\* documents above hold: unknown keys are errors, server_name,
\* github_repository and site_domain are required strings.
Valid(doc) ==
    /\ doc.t = "dict"
    /\ \A i \in 1..Len(doc.v) : doc.v[i][1] \in TopLevelKeys
    /\ DictHas(doc.v, "server_name") /\ HasType(doc, "server_name", "str")
    /\ DictHas(doc.v, "github_repository")
    /\ HasType(doc, "github_repository", "str")
    /\ HasType(doc, "github_branch", "str")
    /\ HasType(doc, "sites", "list")
    /\ DictHas(doc.v, "sites") =>
           \A i \in 1..Len(DictGet(doc.v, "sites").v) :
               LET site == DictGet(doc.v, "sites").v[i]
               IN  /\ site.t = "dict"
                   /\ \A j \in 1..Len(site.v) : site.v[j][1] \in SiteKeys
                   /\ DictHas(site.v, "site_domain")
                   /\ HasType(site, "site_domain", "str")
                   /\ HasType(site, "environment", "str")
                   /\ HasType(site, "nginx_template", "str")
                   /\ HasType(site, "nginx_config_variables", "dict")

\* The state after yaml.safe_load; the valid documents all declare the
\* server and the site of the scenario Defaults, which is the configuration
\* load_config returns for them.
InitSecrets ==
    /\ SECRETS_ENV \in SecretsValues
    /\ data \in Values(MaxNest) \cup ConfigDocs
    /\ replaced = None
    /\ nrm = <<>> /\ ev = None /\ ld = None
    /\ RunData(Defaults)
    /\ pc = "secrets" /\ run = 1 /\ idx = 0 /\ loc = NoLocals
    /\ calls = <<>> /\ exit_code = -1 /\ error = NoStr
    /\ IdleWait
    /\ IdleCert

secretVars == <<fixedVars, idx, loc, w, calls, remoteVars>>

\* secrets = None; if SECRETS_ENV: secrets = parse_env(SECRETS_ENV) and
\* data = replace_secrets_yaml(data, secrets), any exception raised again as
\* "Error replacing secrets".
ReplaceSecrets ==
    /\ pc = "secrets"
    /\ IF Truthy(SECRETS_ENV)
       THEN LET secrets == parse_env(SECRETS_ENV)
                result == replace_secrets_yaml(data, secrets)
            IN  IF result = Raised
                THEN replaced' = replaced /\ Raise("Error replacing secrets")
                ELSE replaced' = result /\ Continue("validate")
       ELSE replaced' = data /\ Continue("validate")
    /\ UNCHANGED <<SECRETS_ENV, data, nrm, ev, ld>>
    /\ UNCHANGED <<cfg, files, r_servers, certVars, succAt, run>>
    /\ UNCHANGED <<idx, loc, w, calls, remoteVars>>

\* validate_yaml_data(data); config = load_config(data)
ValidateConfig ==
    /\ pc = "validate"
    /\ IF Valid(replaced)
       THEN Continue("start")
       ELSE Raise("YAML data validation failed")
    /\ UNCHANGED secretVars

NextSecrets == ReplaceSecrets \/ ValidateConfig \/ GetServers \/ GetSites

SpecSecrets == InitSecrets /\ [][NextSecrets]_vars

(***************************************************************************)
(* SpecPath: ensure_relative_path as load_config applies it to the path    *)
(* fields of a site, then applied once more to its own results.            *)
(***************************************************************************)

\* A value that may be None: a path is a sequence of atoms, "/" and "." are
\* single characters, any other atom is a run of characters without "/".
NonePath == [some |-> FALSE, path |-> <<>>]
Some(path) == [some |-> TRUE, path |-> path]

ensure_relative_path_stripped(path) ==
    IF path.some /\ path.path # <<>> /\ Head(path.path) = "/"
    THEN Some(Tail(path.path))
    ELSE path

\* if path and path.startswith("/"): return "." + path; return path
ensure_relative_path(path) ==
    IF path.some /\ path.path # <<>> /\ Head(path.path) = "/"
    THEN Some(<<".">> \o path.path)
    ELSE path

\* site.get(key, default), and site.get(key) with default None
SiteGet(site, key, default) ==
    IF key \in DOMAIN site THEN site[key] ELSE default

\* The path entries of the dict load_config appends for a site.
LoadSitePaths(site) ==
    [root_dir |-> ensure_relative_path(SiteGet(site, "root_dir", Some(<<".">>))),
     web_dir |-> ensure_relative_path(SiteGet(site, "web_dir", Some(<<"public">>))),
     env_file |-> ensure_relative_path(SiteGet(site, "env_file", NonePath)),
     nginx_custom_config |->
         ensure_relative_path(SiteGet(site, "nginx_custom_config", NonePath))]

\* Bound of SpecPath: number of atoms of a path.
MaxPathLen == 3

PathAtoms == {"/", ".", "a"}

OptPaths ==
    {NonePath} \cup {Some(p) : p \in UNION {[1..n -> PathAtoms] : n \in 0..MaxPathLen}}

PathFields == {"root_dir", "web_dir", "env_file", "nginx_custom_config"}

\* A site block that sets one of the path fields, or none.
InitPath ==
    /\ \E site \in {[k \in {f} |-> p] : f \in PathFields, p \in OptPaths}
                       \cup {[k \in {} |-> NonePath]} :
           nrm = [site |-> site, config |-> None, again |-> None]
    /\ SECRETS_ENV = NoText /\ data = None /\ replaced = None /\ ev = None
    /\ ld = None
    /\ IdleWait
    /\ IdleCert
    /\ IdleRun

\* config["sites"].append({...}) of load_config
LoadConfigPaths ==
    /\ nrm.config = None
    /\ nrm' = [nrm EXCEPT !.config = LoadSitePaths(nrm.site)]
    /\ UNCHANGED <<waitVars, certVars, runVars, SECRETS_ENV, data, replaced, ev,
                   ld>>

\* ensure_relative_path applied to each of its results.
NormaliseAgain ==
    /\ nrm.config # None /\ nrm.again = None
    /\ nrm' = [nrm EXCEPT !.again =
                  [f \in PathFields |-> ensure_relative_path(nrm.config[f])]]
    /\ UNCHANGED <<waitVars, certVars, runVars, SECRETS_ENV, data, replaced, ev,
                   ld>>

NextPath == LoadConfigPaths \/ NormaliseAgain

SpecPath == InitPath /\ [][NextPath]_vars

(***************************************************************************)
(* SpecEnv: the env step of main() as a function of the text of the env    *)
(* file and of the inline environment.                                     *)
(***************************************************************************)

\* Bound of SpecEnv: number of lines of a text.
MaxEnvLines == 2

EnvLines ==
    {<<"app_env", Eq, "dev">>,
     <<"APP_ENV", Blank, Eq, Blank, "prod", Eq, "1">>,
     <<"db_host", Eq>>,
     <<"garbage">>,
     <<Blank>>,
     <<>>}

\* The texts of at most MaxEnvLines lines, and None.
OptTexts == {NoText} \cup UNION {[1..n -> EnvLines] : n \in 1..MaxEnvLines}

\* env_file is NoText when the site declares no env file, environment when
\* it declares no inline environment.
InitEnv ==
    /\ \E f \in OptTexts, e \in OptTexts :
           ev = [env_file |-> f, environment |-> e, done |-> FALSE,
                 content |-> NoText]
    /\ SECRETS_ENV = NoText /\ data = None /\ replaced = None /\ nrm = <<>>
    /\ ld = None
    /\ IdleWait
    /\ IdleCert
    /\ IdleRun

\* The env step with the env file found: content is the body of the PUT,
\* NoText when env_str is empty and nothing is sent.
PushEnv ==
    /\ ~ev.done
    /\ LET env_str == EnvStr(MergedEnv(ev.env_file, ev.environment))
       IN  ev' = [ev EXCEPT !.done = TRUE,
                            !.content = IF env_str # EmptyText THEN env_str
                                        ELSE NoText]
    /\ UNCHANGED <<waitVars, certVars, runVars, SECRETS_ENV, data, replaced, nrm,
                   ld>>

NextEnv == PushEnv

SpecEnv == InitEnv /\ [][NextEnv]_vars

(***************************************************************************)
(* SpecLoad: validate_yaml_data and load_config on a loaded document, then *)
(* the two values main() takes from the configuration alone: the variable  *)
(* mapping of a new site's nginx config and the branch of the attach       *)
(* request.                                                                *)
(***************************************************************************)

\* A str of one atom and a dict of such strs, as the values main() handles.
PyStr(y) == y.v[1]
PyDict(y) ==
    [name \in {y.v[i][1] : i \in 1..Len(y.v)} |-> PyStr(DictGet(y.v, name))]

\* The entries load_config builds from the keys the documents of SpecLoad
\* hold; a site block declares neither clone_repository nor nginx_template.
LoadSite(site) ==
    [site_domain |-> PyStr(DictGet(site.v, "site_domain")),
     nginx_template |-> "default",
     nginx_template_variables |->
         IF DictHas(site.v, "nginx_template_variables")
         THEN PyDict(DictGet(site.v, "nginx_template_variables"))
         ELSE NoVariables,
     clone_repository |-> TRUE]

load_config(yaml_data) ==
    [server_name |-> PyStr(DictGet(yaml_data.v, "server_name")),
     github_repository |-> PyStr(DictGet(yaml_data.v, "github_repository")),
     github_branch |-> IF DictHas(yaml_data.v, "github_branch")
                       THEN PyStr(DictGet(yaml_data.v, "github_branch"))
                       ELSE "main",
     sites |-> LET sites == IF DictHas(yaml_data.v, "sites")
                            THEN DictGet(yaml_data.v, "sites").v
                            ELSE <<>>
               IN  [i \in 1..Len(sites) |-> LoadSite(sites[i])]]

\* The ways a document declares, or leaves out, one key.
Declared(key, values) == {<<>>} \cup {<<<<key, v>>>> : v \in values}

PortVariables == YDict(<<<<"port", YStr(<<"8080">>)>>>>)

\* Documents with one site: a branch at the top level or not, and in the
\* site block a branch or not and a variable mapping or not, under the key
\* of the schema and under the key load_config reads.
LoadDocs ==
    {YDict(<<<<"server_name", YStr(<<"prod">>)>>,
             <<"github_repository", YStr(<<"acme/app">>)>>>>
           \o top
           \o <<<<"sites",
                  YList(<<YDict(<<<<"site_domain", YStr(<<"a.test">>)>>>>
                                \o branch \o config_variables
                                \o template_variables)>>)>>>>) :
        top \in Declared("github_branch",
                         {YStr(<<"release">>), YStr(<<"hotfix">>)}),
        branch \in Declared("github_branch", {YStr(<<"develop">>)}),
        config_variables \in
            Declared("nginx_config_variables", {PortVariables, YDict(<<>>)}),
        template_variables \in
            Declared("nginx_template_variables", {PortVariables})}

\* The state after yaml.safe_load for a site the server does not hold yet,
\* whose freshly generated nginx config has a {{port}} token or none.
InitLoad ==
    /\ data \in LoadDocs
    /\ \E nginx_config \in {LocalTemplate, TokenTemplate} :
           ld = [stage |-> "loaded", nginx_config |-> nginx_config,
                 config |-> None, variables |-> NoVariables,
                 pushed |-> <<>>, attach |-> None, error |-> NoStr]
    /\ SECRETS_ENV = NoText /\ replaced = None /\ nrm = <<>> /\ ev = None
    /\ IdleWait
    /\ IdleCert
    /\ IdleRun

loadVars == <<waitVars, certVars, runVars, SECRETS_ENV, data, replaced, nrm, ev>>

\* validate_yaml_data(data)
ValidateDocument ==
    /\ ld.stage = "loaded"
    /\ ld' = IF Valid(data)
             THEN [ld EXCEPT !.stage = "validated"]
             ELSE [ld EXCEPT !.stage = "exit",
                             !.error = "YAML data validation failed"]
    /\ UNCHANGED loadVars

\* config = load_config(data)
LoadConfig ==
    /\ ld.stage = "validated"
    /\ ld' = [ld EXCEPT !.stage = "config", !.config = load_config(data)]
    /\ UNCHANGED loadVars

\* nginx_config = replace_nginx_variables(nginx_config,
\*     site_conf["nginx_template_variables"]) for the new site, then the push.
SubstituteVariables ==
    /\ ld.stage = "config"
    /\ LET variables == ld.config.sites[1].nginx_template_variables
       IN  ld' = IF UnsetVariables(ld.nginx_config, variables) = {}
                 THEN [ld EXCEPT !.stage = "substituted",
                                 !.variables = variables,
                                 !.pushed = replace_nginx_variables(
                                                ld.nginx_config, variables)]
                 ELSE [ld EXCEPT !.stage = "exit",
                                 !.variables = variables,
                                 !.error = "Failed to set nginx config variables"]
    /\ UNCHANGED loadVars

\* The json of session.post(.../sites/{site_id}/git, ...).
AttachPayload ==
    /\ ld.stage = "substituted"
    /\ ld' = [ld EXCEPT !.stage = "attached",
                        !.attach = [provider |-> "github",
                                    repository |-> ld.config.github_repository,
                                    branch |-> BranchOf(ld.config,
                                                        ld.config.sites[1]),
                                    composer |-> FALSE]]
    /\ UNCHANGED loadVars

NextLoad ==
    ValidateDocument \/ LoadConfig \/ SubstituteVariables \/ AttachPayload

SpecLoad == InitLoad /\ [][NextLoad]_vars

(***************************************************************************)
(* SpecRootWait: wait() of the root-level script (src/utils.py), entered   *)
(* with some max_retries and a predicate that first succeeds on call       *)
(* succAt.                                                                 *)
(***************************************************************************)

\* while retries <= max_retries
RootWaitLoopCond(retries, max_retries) == retries <= max_retries

\* timeout *= 2
RootNextTimeout(timeout) == timeout * 2

\* Entry of wait(): retries = 0, timeout = 0.5, then the first loop test.
RootWaitStart(max_retries) ==
    [max |-> max_retries, retries |-> 0, timeout |-> InitialTimeout,
     calls |-> 0, slept |-> <<>>,
     result |-> IF RootWaitLoopCond(0, max_retries) THEN "running" ELSE "false"]

\* One iteration of the loop body with the callback's result ok, followed by
\* the next loop test.
RootWaitIter(f, ok) ==
    IF ok
    THEN [f EXCEPT !.calls = @ + 1, !.result = "true"]
    ELSE LET r == f.retries + 1
         IN  [f EXCEPT !.calls = @ + 1,
                       !.slept = Append(@, f.timeout),
                       !.retries = r,
                       !.timeout = RootNextTimeout(@),
                       !.result = IF RootWaitLoopCond(r, f.max)
                                  THEN "running" ELSE "false"]

InitRootWait ==
    /\ succAt \in 0..MaxSuccAt
    /\ w = NoWait
    /\ IdleCert
    /\ IdleRun
    /\ IdlePure

\* wait(callback) with the default, wait(until_site_deployed, max_retries=-1),
\* or a call with another max_retries.
RootWaitEnter ==
    /\ w = NoWait
    /\ \E m \in -2..MaxRetriesArg : w' = RootWaitStart(m)
    /\ UNCHANGED <<succAt, certVars, runVars, pureVars>>

RootWaitCall ==
    /\ w.result = "running"
    /\ w.calls < MaxWaitCalls
    /\ w' = RootWaitIter(w, PredicateResult)
    /\ UNCHANGED <<succAt, certVars, runVars, pureVars>>

NextRootWait == RootWaitEnter \/ RootWaitCall

SpecRootWait == InitRootWait /\ [][NextRootWait]_vars

(***************************************************************************)
(* Two runs of the script at once (SpecRace).                              *)
(*                                                                         *)
(* Two runs of main() with the same configuration (one declared site)     *)
(* against one server.  Each run has its own position and locals: in this  *)
(* specification pc and loc are functions of the run, and a logged call    *)
(* names its run.  A run is followed through the steps that read or write  *)
(* the server's sites and daemons: the listing of the sites, the lookup,   *)
(* the creation of the site and the wait for it, and the daemon step.  The *)
(* steps in between neither read nor write those two lists.                *)
(***************************************************************************)

Runs == {1, 2}

RaceLocals == [sites |-> <<>>, site_id |-> 0, site_daemons |-> <<>>, i |-> 1]

RaceCall(p, op, arg) ==
    calls' = Append(calls, [op |-> op, run |-> p, site |-> 1, arg |-> arg,
                            ok |-> TRUE])

RaceGoto(p, next) == pc' = [pc EXCEPT ![p] = next]

raceFixed == <<fixedVars, idx, exit_code, error, w, r_templates, r_php, r_jobs,
               r_certs>>

ListedSitesFresh(p) == r_sites

\* `sites`, fetched once before the loop over the declared sites.
ListedSites(p) == loc[p].sites

\* sites = forge_api.get_all_sites(server_id)
RaceGetSites(p) ==
    /\ pc[p] = "get_sites"
    /\ RaceCall(p, "get_sites", r_sites)
    /\ loc' = [loc EXCEPT ![p].sites = r_sites]
    /\ RaceGoto(p, "site")
    /\ UNCHANGED <<raceFixed, r_sites, r_daemons, r_next>>

\* site = next((site for site in sites if ...), None); if not site: ...
RaceSiteLookup(p) ==
    /\ pc[p] = "site"
    /\ LET k == FirstIndex(ListedSites(p),
                           LAMBDA s : s.name = site_conf.site_domain)
       IN  IF SiteAbsent(k)
           THEN UNCHANGED loc /\ RaceGoto(p, "create_site")
           ELSE /\ loc' = [loc EXCEPT ![p].site_id = ListedSites(p)[k].id]
                /\ RaceGoto(p, "daemons_get")
    /\ UNCHANGED <<raceFixed, calls, r_sites, r_daemons, r_next>>

\* site = forge_api.create_site(server_id, create_site_payload)
RaceCreateSite(p) ==
    /\ pc[p] = "create_site"
    /\ LET payload == [domain |-> site_conf.site_domain,
                       project_type |-> site_conf.project_type,
                       aliases |-> site_conf.aliases,
                       directory |-> WebDir(site_conf),
                       isolated |-> FALSE, nginx_template |-> 1]
           new == NewSite(Len(r_sites) + 1, payload, LocalTemplate)
       IN  /\ r_sites' = Append(r_sites, new)
           /\ loc' = [loc EXCEPT ![p].site_id = new.id]
           /\ RaceCall(p, "create_site", payload)
    /\ RaceGoto(p, "wait_site")
    /\ UNCHANGED <<raceFixed, r_daemons, r_next>>

\* wait(lambda: until_site_installed(site)): left when a poll shows the site
\* installed, or with the timeout.
RaceUntilSiteInstalled(p) ==
    /\ pc[p] = "wait_site"
    /\ IF SiteInstalled(r_sites[loc[p].site_id])
       THEN RaceGoto(p, "daemons_get")
       ELSE RaceGoto(p, "failed")
    /\ UNCHANGED <<raceFixed, loc, calls, r_sites, r_daemons, r_next>>

RaceAfterDaemonLoop(from) ==
    IF from = "delete" /\ site_conf.daemons # <<>> THEN "daemons_add" ELSE "done"

\* The listing of the daemons, filtered by directory == site_dir.
RaceDaemonsGet(p) ==
    /\ pc[p] = "daemons_get"
    /\ RaceCall(p, "get_daemons", r_daemons)
    /\ LET site_daemons == SiteDaemons(r_daemons, SiteDir(site_conf))
       IN  /\ loc' = [loc EXCEPT ![p].site_daemons = site_daemons, ![p].i = 1]
           /\ RaceGoto(p, IF site_daemons # <<>> THEN "daemons_delete"
                          ELSE RaceAfterDaemonLoop("delete"))
    /\ UNCHANGED <<raceFixed, r_sites, r_daemons, r_next>>

\* One iteration of "for dm in site_daemons"; the delete of a daemon that is
\* gone is answered with an error, which ends the run.
RaceDaemonsDelete(p) ==
    /\ pc[p] = "daemons_delete"
    /\ LET dm == loc[p].site_daemons[loc[p].i]
           last == loc[p].i = Len(loc[p].site_daemons)
           step == [loc EXCEPT ![p].i = IF last THEN 1 ELSE @ + 1]
           on == IF last THEN RaceAfterDaemonLoop("delete") ELSE pc[p]
       IN  IF dm.command \in DeclaredCommands
           THEN /\ loc' = step /\ RaceGoto(p, on)
                /\ UNCHANGED <<calls, r_daemons>>
           ELSE /\ RaceCall(p, "delete_daemon", dm.id)
                /\ IF \E j \in 1..Len(r_daemons) : r_daemons[j].id = dm.id
                   THEN /\ r_daemons' = SelectSeq(r_daemons,
                                                  LAMBDA d : d.id # dm.id)
                        /\ loc' = step /\ RaceGoto(p, on)
                   ELSE /\ UNCHANGED <<r_daemons, loc>>
                        /\ RaceGoto(p, "failed")
    /\ UNCHANGED <<raceFixed, r_sites, r_next>>

\* One iteration of "for daemon in site_conf['daemons']".
RaceDaemonsAdd(p) ==
    /\ pc[p] = "daemons_add"
    /\ LET daemon == site_conf.daemons[loc[p].i]
           last == loc[p].i = Len(site_conf.daemons)
       IN  /\ IF \A j \in 1..Len(loc[p].site_daemons) :
                     loc[p].site_daemons[j].command # daemon.command
              THEN /\ RaceCall(p, "create_daemon", daemon.command)
                   /\ r_daemons' = Append(r_daemons,
                          [id |-> r_next.daemon, command |-> daemon.command,
                           user |-> "forge", directory |-> SiteDir(site_conf),
                           startsecs |-> 1])
                   /\ r_next' = [r_next EXCEPT !.daemon = @ + 1]
              ELSE UNCHANGED <<calls, r_daemons, r_next>>
           /\ loc' = [loc EXCEPT ![p].i = IF last THEN 1 ELSE @ + 1]
           /\ RaceGoto(p, IF last THEN "done" ELSE pc[p])
    /\ UNCHANGED <<raceFixed, r_sites>>

\* The servers of SpecRace: the site absent, or present with daemons.
RaceScenarios ==
    {[Defaults EXCEPT !.declared = d] : d \in {<<>>, <<"queue:work">>}}
    \cup {[Converged EXCEPT !.existing = e, !.declared = d] :
            e \in {<<>>, <<"horizon">>}, d \in {<<"queue:work">>, <<"horizon">>}}

InitRace ==
    /\ \E k \in RaceScenarios : RunData(k)
    /\ pc = [p \in Runs |-> "get_sites"]
    /\ loc = [p \in Runs |-> RaceLocals]
    /\ run = 1 /\ idx = 1
    /\ calls = <<>> /\ exit_code = -1 /\ error = NoStr
    /\ IdleWait
    /\ IdleCert
    /\ IdlePure

NextRace ==
    \/ \E p \in Runs : RaceGetSites(p)
    \/ \E p \in Runs : RaceSiteLookup(p)
    \/ \E p \in Runs : RaceCreateSite(p)
    \/ \E p \in Runs : RaceUntilSiteInstalled(p)
    \/ \E p \in Runs : RaceDaemonsGet(p)
    \/ \E p \in Runs : RaceDaemonsDelete(p)
    \/ \E p \in Runs : RaceDaemonsAdd(p)
    \/ ProviderSiteInstalled

SpecRace == InitRace /\ [][NextRace]_vars

(***************************************************************************)
(* Properties                                                              *)
(***************************************************************************)

\* C5: get_domains_certificate returns the first certificate of the list
\* whose set of covered names equals the declared set of domains (order and
\* repetition ignored, a strict subset or superset is no match), and None
\* when the list holds no such certificate.
CertMatchIsSetEquality ==
    cm_done =>
        LET matches == {i \in 1..Len(cm_certs) :
                            Range(cm_certs[i].names) = Range(cm_domains)}
        IN  IF matches = {}
            THEN cm_result = None
            ELSE cm_result =
                     cm_certs[CHOOSE i \in matches : \A j \in matches : i <= j]

\* C5 witness: a certificate for (a.test, www.a.test) is returned for the
\* declared list (www.a.test, a.test), after a certificate for a.test alone
\* was passed over.
CertMatchWitness ==
    /\ cm_domains = <<"www.a.test", "a.test">>
    /\ Len(cm_certs) = 2
    /\ cm_certs[1].names = <<"a.test">>
    /\ cm_certs[2].names = <<"a.test", "www.a.test">>
    /\ cm_done
    /\ cm_result = cm_certs[2]

\* C7: when the predicate first succeeds on call N, with N <= max_retries + 1
\* or max_retries negative, wait never returns false, never calls the
\* predicate more than N times, returns true exactly after the N-th call,
\* and has then slept N - 1 times.
WaitSucceedsOnNthCall ==
    (succAt # 0 /\ (w.max < 0 \/ succAt <= w.max + 1)) =>
        /\ w.result \in {"running", "true"}
        /\ w.calls <= succAt
        /\ (w.result = "true" <=> w.calls = succAt)
        /\ Len(w.slept) = IF w.result = "true" THEN succAt - 1 ELSE w.calls

\* C7 witness: success on the third call of a wait with max_retries 8.
WaitSucceedsWitness ==
    /\ succAt = 3 /\ w.max = 8
    /\ w.result = "true" /\ w.calls = 3 /\ Len(w.slept) = 2

\* C8: with max_retries = k >= 0 and a predicate that does not succeed, wait
\* returns false exactly after call k + 1 and never returns true.
WaitExhaustsAfterKPlusOne ==
    (w.max >= 0 /\ (succAt = 0 \/ succAt > w.max + 1)) =>
        /\ w.result \in {"running", "false"}
        /\ w.calls <= w.max + 1
        /\ (w.result = "false" <=> w.calls = w.max + 1)

\* C8 witness: the default max_retries 8 exhausted after 9 calls.
WaitExhaustsWitness ==
    /\ succAt = 0 /\ w.max = 8
    /\ w.result = "false" /\ w.calls = 9

\* C9: the i-th sleep of a wait lasts min(0.5 * 2^(i-1), 30) seconds (here in
\* milliseconds): 0.5 s first, doubled after every failed attempt, capped
\* at 30 s.
WaitDelaysDoubleToCap ==
    \A i \in 1..Len(w.slept) :
        /\ w.slept[i] = Min(500 * 2 ^ (i - 1), 30000)
        /\ w.slept[i] <= 30000
        /\ i > 1 => (w.slept[i] = 2 * w.slept[i - 1] \/ w.slept[i] = 30000)

\* C9 witness: the seventh sleep is the first capped one and the eighth
\* stays at the cap.
WaitDelaysWitness ==
    /\ Len(w.slept) >= 8
    /\ w.slept[1] = 500 /\ w.slept[6] = 16000
    /\ w.slept[7] = 30000 /\ w.slept[8] = 30000

\* C10: with a negative max_retries wait never returns false; it returns
\* true exactly when the predicate has succeeded and is otherwise still
\* polling, however many calls were made.
WaitNegativeIsUnlimited ==
    w.max < 0 =>
        /\ w.result \in {"running", "true"}
        /\ (w.result = "true" <=> (succAt # 0 /\ w.calls = succAt))
        /\ (w.result = "running" <=> (succAt = 0 \/ w.calls < succAt))

\* C10 witness: max_retries -1 and a first success on the eleventh call,
\* past the nine calls a default wait would make.
WaitUnlimitedWitness ==
    /\ w.max = -1 /\ succAt = 11
    /\ w.result = "true" /\ w.calls = 11

(***************************************************************************)
(* The calls of a run.                                                     *)
(***************************************************************************)

\* The calls that change the server: every POST, PUT and DELETE of main().
MutatingOps ==
    {"create_nginx_template", "update_nginx_template", "create_site",
     "set_nginx_config", "update_site", "install_php", "set_site_php",
     "attach_repository", "delete_daemon", "create_daemon", "create_job",
     "delete_job", "set_deployment_script", "set_env", "create_certificate",
     "activate_certificate", "deploy"}

\* Site creation, alias update, PHP install and set, repository attach,
\* daemon create and delete, certificate create and activate.
ConvergenceOps ==
    {"create_site", "update_site", "install_php", "set_site_php",
     "attach_repository", "create_daemon", "delete_daemon",
     "create_certificate", "activate_certificate"}

Ops(log) == {log[i].op : i \in 1..Len(log)}

\* The calls of the log made for site s with an operation of ops, in order.
CallsOf(log, s, ops) == SelectSeq(log, LAMBDA c : c.site = s /\ c.op \in ops)

Args(log) == [i \in 1..Len(log) |-> log[i].arg]

\* C2: a run started with the same configuration after a run that ended with
\* exit code 0, the provider quiescent, issues no site creation, no alias
\* update, no PHP install or set, no repository attach, no daemon creation or
\* deletion and no certificate creation or activation.
SecondRunIssuesNoConvergenceCall ==
    run >= 2 => Ops(calls) \cap ConvergenceOps = {}

\* A second run that went through every site and ended with exit code 0.
SecondRunWitness ==
    /\ run = 2 /\ pc = "exit" /\ exit_code = 0
    /\ cfg.sites[1].php_version # NoStr /\ cfg.sites[1].certificate
    /\ cfg.sites[1].daemons # <<>> /\ cfg.sites[1].aliases # <<>>
    /\ "get_daemons" \in Ops(calls) /\ "list_certificates" \in Ops(calls)

DaemonsConverged ==
    /\ pc \notin {"daemons_delete", "daemons_add"}
    /\ CallsOf(calls, idx, {"get_daemons"}) # <<>>

\* C4: with E the daemons of the response whose directory is the site's and
\* D the declared daemons, the deletes issued are those of the daemons of E
\* whose command is not declared, one each; the creates issued are those of
\* the entries of D whose command no daemon of E has, one each; daemon_ids is
\* the ids of the kept daemons of E followed by the ids of the daemons
\* created, and holds the id of no deleted daemon.
DaemonConvergence ==
    DaemonsConverged =>
        LET conf == cfg.sites[idx]
            E == SelectSeq(CallsOf(calls, idx, {"get_daemons"})[1].arg,
                           LAMBDA d : d.directory = SiteDir(conf))
            D == conf.daemons
            gone == SelectSeq(E, LAMBDA d :
                        \A j \in 1..Len(D) : D[j].command # d.command)
            kept == SelectSeq(E, LAMBDA d :
                        \E j \in 1..Len(D) : D[j].command = d.command)
            new == SelectSeq(D, LAMBDA d :
                        \A j \in 1..Len(E) : E[j].command # d.command)
            ids == loc.daemon_ids
        IN  /\ Args(CallsOf(calls, idx, {"delete_daemon"}))
                  = [i \in 1..Len(gone) |-> gone[i].id]
            /\ Args(CallsOf(calls, idx, {"create_daemon"}))
                  = [i \in 1..Len(new) |-> new[i].command]
            /\ Len(ids) = Len(kept) + Len(new)
            /\ SubSeq(ids, 1, Len(kept)) = [i \in 1..Len(kept) |-> kept[i].id]
            /\ \A i \in 1..Len(new) :
                  /\ \A j \in 1..Len(E) : E[j].id # ids[Len(kept) + i]
                  /\ \E j \in 1..Len(r_daemons) :
                        /\ r_daemons[j].id = ids[Len(kept) + i]
                        /\ r_daemons[j].command = new[i].command
                        /\ r_daemons[j].directory = SiteDir(conf)
            /\ \A i \in 1..Len(gone) : gone[i].id \notin Range(ids)

\* Existing {queue:work, horizon}, declared {horizon, reverb}: one delete,
\* one create, daemon_ids is the id kept then the id created.
DaemonConvergenceWitness ==
    /\ pc = "scheduler"
    /\ site_conf.daemons = <<[command |-> "horizon"], [command |-> "reverb"]>>
    /\ Args(CallsOf(calls, idx, {"delete_daemon"})) = <<2>>
    /\ Args(CallsOf(calls, idx, {"create_daemon"})) = <<"reverb">>
    /\ loc.daemon_ids = <<3, 4>>

\* The steps the end-to-end scenario names, in its order; 0 for other calls.
StepOf(c) ==
    CASE c.op \in {"get_nginx_templates", "create_nginx_template",
                   "get_nginx_template_by_id", "update_nginx_template"} -> 1
      [] c.op = "create_site" -> 2
      [] c.op = "until_site_installed" -> 3
      [] c.op = "set_nginx_config" /\ c.arg = "variables" -> 4
      [] c.op \in {"install_php", "until_php_installed", "set_site_php"} -> 5
      [] c.op = "attach_repository" -> 6
      [] c.op = "create_daemon" -> 7
      [] c.op = "set_deployment_script" -> 8
      [] c.op = "create_certificate" -> 9
      [] c.op = "activate_certificate" -> 10
      [] c.op = "deploy" -> 11
      [] c.op = "until_site_deployed" -> 12
      [] OTHER -> 0

Steps(log) == SelectSeq([i \in 1..Len(log) |-> StepOf(log[i])], LAMBDA n : n > 0)

\* One php site with a PHP version, one daemon, deployment commands, a
\* certificate and a repository declared, absent from the sites listed.
FreshPhpSite ==
    /\ run = 1 /\ Len(cfg.sites) = 1
    /\ cfg.sites[1].project_type = "php" /\ cfg.sites[1].php_version # NoStr
    /\ Len(cfg.sites[1].daemons) = 1
    /\ cfg.sites[1].deployment_commands # NoStr
    /\ cfg.sites[1].certificate /\ cfg.sites[1].clone_repository
    /\ "get_sites" \in Ops(calls)
    /\ \A i \in 1..Len(loc.sites) : loc.sites[i].name # cfg.sites[1].site_domain

\* What ends the run of the fresh site with exit code 1: a local file (the
\* template, the custom nginx config, the env file) or a variable of the
\* template is missing, a poll ran out of retries, the deployment failed.
FreshSiteFailures ==
    {"Invalid nginx template name", "Failed to set nginx config variables",
     "Nginx config file doesn't exist",
     "Failed to set environment variables: file not found",
     "Site creation timed out",
     "Failed to install php version: Php installation timed out",
     "Failed to install php version: ",
     "Failed to add repository: Adding repository timed out",
     "Applying certificate timed out", "Deployment failed"}

\* C1: in the run over one absent php site (PHP version, one daemon,
\* deployment commands, certificate and repository declared) the calls come
\* in the order template resolution, site creation, polls of the site status,
\* push of the substituted nginx config, PHP install and assignment,
\* repository attach, daemon creation, deployment-script push, certificate
\* creation, certificate activation, deploy trigger, polls of the deployment
\* status; each of the pushes, creations and triggers is made at most once;
\* a run that ends with exit code 0 has made every step, and a run ends with
\* another exit code only on a missing local file or template variable, a
\* poll that ran out of retries or found the PHP version not listed, or a
\* failed deployment.
FreshSiteCallOrder ==
    FreshPhpSite =>
        LET steps == Steps(calls)
        IN  /\ \A i \in 1..Len(steps) - 1 : steps[i] <= steps[i + 1]
            /\ \A op \in {"create_site", "set_site_php", "attach_repository",
                          "create_daemon", "set_deployment_script",
                          "create_certificate", "activate_certificate", "deploy"} :
                  Len(CallsOf(calls, 1, {op})) <= 1
            /\ pc = "exit" /\ exit_code = 0 =>
                  /\ Range(steps) = 1..12
                  /\ "set_site_php" \in Ops(calls)
            /\ pc = "exit" /\ exit_code # 0 =>
                  exit_code = 1 /\ error \in FreshSiteFailures

\* The fresh site's run ended with exit code 0 after the PHP version was
\* installed and the template uploaded.
FreshSiteWitness ==
    /\ FreshPhpSite /\ pc = "exit" /\ exit_code = 0
    /\ Range(Steps(calls)) = 1..12
    /\ "install_php" \in Ops(calls)

\* C6 as stated: when the deployment of a site with certificate requested is
\* triggered, the responses read for the site have shown the certificate of
\* its domains installed and, then or later, active.
DeployAfterCertificateSeenActive ==
    \A i \in 1..Len(calls) :
        calls[i].op = "deploy" /\ cfg.sites[calls[i].site].certificate =>
            \E a, b \in 1..Len(loc.observed) :
                /\ a <= b
                /\ loc.observed[a] = [site |-> calls[i].site, seen |-> "installed"]
                /\ loc.observed[b] = [site |-> calls[i].site, seen |-> "active"]

\* C11: when the deployment history read after a site's deployment has a
\* most recent entry with status failed, the next step of the run ends it
\* with exit code 1; the run that ended so has issued no call for a later
\* site and none after the read of the history, and issues none afterwards.
FailedDeploymentAborts ==
    /\ [][/\ pc = "deployment_history" /\ pc' # pc
           /\ r_sites[loc.site_id].history # <<>>
           /\ r_sites[loc.site_id].history[1].status = "failed"
           => /\ pc' = "exit" /\ exit_code' = 1 /\ error' = "Deployment failed"
              /\ Last(calls').op = "get_deployment_history"
              /\ \A i \in 1..Len(calls') : calls'[i].site <= idx]_vars
    /\ [][exit_code = 1 => calls' = calls /\ pc' = pc /\ exit_code' = 1]_vars

\* The deployment of the first of two sites failed: the run is over and the
\* second site was not touched.
FailedDeploymentWitness ==
    /\ pc = "exit" /\ exit_code = 1 /\ error = "Deployment failed"
    /\ idx = 1 /\ Len(cfg.sites) = 2
    /\ \A i \in 1..Len(calls) : calls[i].site <= 1
    /\ \A i \in 1..Len(r_sites) : r_sites[i].name # cfg.sites[2].site_domain

\* Site s was processed to the end: its daemons were read and, when
\* clone_repository is set, its deployment history.
SiteEnded(s) ==
    /\ CallsOf(calls, s, {"get_daemons"}) # <<>>
    /\ cfg.sites[s].clone_repository
          => CallsOf(calls, s, {"get_deployment_history"}) # <<>>

\* C12: the exit code is 0 or 1; the run that exits with 0 went through every
\* declared site to its end with every request answered, no wait exhausted and
\* no deployment failed; a request that failed, a wait that ran out of
\* retries, or any other exception ends the run with exit code 1. A 404 of
\* the deployment log is caught inside main() and is no such error.
ExitCodeTellsSuccess ==
    /\ pc = "exit" <=> exit_code \in {0, 1}
    /\ pc = "exit" => (exit_code = 0 <=> error = NoStr)
    /\ pc = "exit" /\ exit_code = 0 =>
          /\ \A s \in 1..Len(cfg.sites) : SiteEnded(s)
          /\ \A i \in 1..Len(calls) : calls[i].ok
          /\ w.result # "false"
    /\ (\E i \in 1..Len(calls) : ~calls[i].ok) => pc = "exit" /\ exit_code = 1
    /\ w.result = "false" => pc = "exit" /\ exit_code = 1

\* A run that went through two sites and exited with 0 although the
\* deployment log of a site answered 404.
ExitCodeWitness ==
    /\ pc = "exit" /\ exit_code = 0 /\ Len(cfg.sites) = 2
    /\ \E i \in 1..Len(calls) :
          calls[i].op = "get_deployment_log" /\ calls[i].arg = 404

\* C13: only the last request of a run can be a failed one, and the run that
\* made it, or whose wait ran out of retries, is over with exit code 1; once
\* the exit code is 1 no request is issued, so nothing is retried, undone or
\* continued; a 404 of the deployment log does not end the run.
NoCallAfterFailure ==
    /\ [](/\ \A i \in 1..Len(calls) : ~calls[i].ok => i = Len(calls)
          /\ (calls # <<>> /\ ~Last(calls).ok) => pc = "exit" /\ exit_code = 1
          /\ w.result = "false" => pc = "exit" /\ exit_code = 1)
    /\ [][exit_code = 1 => calls' = calls /\ exit_code' = 1]_vars
    /\ [][pc = "deployment_log" /\ calls' # calls /\ Last(calls').ok
              => pc' = "deployment_history"]_vars

\* The creation of a daemon failed after the site was created: the run is
\* over and the site is still on the server.
NoCallAfterFailureWitness ==
    /\ pc = "exit" /\ exit_code = 1
    /\ calls # <<>> /\ ~Last(calls).ok /\ Last(calls).op = "create_daemon"
    /\ "create_site" \in Ops(calls)
    /\ \E i \in 1..Len(r_sites) : r_sites[i].name = cfg.sites[1].site_domain

\* C14: the requests of a run are issued for the declared sites in their
\* order: the site index never decreases along the calls, a request for a
\* site follows the end of the site before it, the site created or looked up
\* under an index is the site declared at that index; every step issues at
\* most one request, appended to those already answered.
SitesInDeclarationOrder ==
    /\ [](/\ \A i, j \in 1..Len(calls) : i < j => calls[i].site <= calls[j].site
          /\ \A i \in 1..Len(calls) :
                /\ calls[i].site > 1 => SiteEnded(calls[i].site - 1)
                /\ calls[i].op = "create_site" =>
                      calls[i].arg.domain = cfg.sites[calls[i].site].site_domain
          /\ (pc \notin {"start", "get_sites", "site", "exit"} /\ loc.site # None)
                => loc.site.name = cfg.sites[idx].site_domain)
    /\ [][run' = run =>
              \/ calls' = calls
              \/ /\ Len(calls') = Len(calls) + 1
                 /\ SubSeq(calls', 1, Len(calls)) = calls]_vars

\* Both sites of a configuration were processed, the second one created
\* after the first one's deployment.
SitesInOrderWitness ==
    /\ pc = "exit" /\ exit_code = 0 /\ Len(cfg.sites) = 2
    /\ CallsOf(calls, 1, {"deploy"}) # <<>>
    /\ CallsOf(calls, 2, {"create_site"}) # <<>>
\* The path of a list element in a document.
IndexName(i) ==
    CASE i = 1 -> "[1]"
      [] i = 2 -> "[2]"
      [] OTHER -> "[n]"

RECURSIVE Nodes(_)
\* The nodes of a document: path from the root, type, and the atoms of a
\* scalar.
Nodes(v) ==
    CASE v.t = "dict" ->
             {<<<<>>, "dict", <<>>>>}
             \cup UNION {{<<<<v.v[i][1]>> \o n[1], n[2], n[3]>> :
                             n \in Nodes(v.v[i][2])} : i \in 1..Len(v.v)}
      [] v.t = "list" ->
             {<<<<>>, "list", <<>>>>}
             \cup UNION {{<<<<IndexName(i)>> \o n[1], n[2], n[3]>> :
                             n \in Nodes(v.v[i])} : i \in 1..Len(v.v)}
      [] OTHER -> {<<<<>>, v.t, v.v>>}

\* The secret names the string leaves of a document refer to.
SecretRefs(v) ==
    UNION {{SecretRef(n[3][i]) : i \in 1..Len(n[3])} :
              n \in {m \in Nodes(v) : m[2] = "str"}} \ {NoStr}

\* The names that have no value under their upper-cased form.
UndefinedRefs(v, secrets) ==
    {name \in SecretRefs(v) :
        \A i \in 1..Len(secrets) : secrets[i][1] # <<Upper(name)>>}

ValueUnder(secrets, name) ==
    LET i == CHOOSE k \in 1..Len(secrets) : secrets[k][1] = <<Upper(name)>>
    IN  secrets[i][2]

RECURSIVE Expanded(_, _)
\* A string with each placeholder replaced by the value under its name.
Expanded(s, secrets) ==
    IF s = <<>> THEN <<>>
    ELSE IF SecretRef(s[Len(s)]) = NoStr
         THEN Append(Expanded(SubSeq(s, 1, Len(s) - 1), secrets), s[Len(s)])
         ELSE Expanded(SubSeq(s, 1, Len(s) - 1), secrets)
              \o ValueUnder(secrets, SecretRef(s[Len(s)]))

\* C16: replace_secrets_yaml(data, secrets), whatever the nesting of dicts
\* and lists in data: when every placeholder of every string leaf names a
\* key of secrets (upper-cased), the result has the shape of data, each
\* string leaf with every placeholder replaced by the value under the
\* upper-cased name, every other scalar as it was, and the result equals
\* data when data holds no placeholder; when some placeholder, at any depth,
\* names no key of secrets the call raises.
ReplaceSecretsLeafwise ==
    (pc # "secrets" /\ Truthy(SECRETS_ENV)) =>
        LET secrets == parse_env(SECRETS_ENV)
        IN  IF UndefinedRefs(data, secrets) # {}
            THEN /\ replaced = None
                 /\ error = "Error replacing secrets"
            ELSE /\ replaced # None
                 /\ {<<n[1], n[2]>> : n \in Nodes(replaced)}
                        = {<<n[1], n[2]>> : n \in Nodes(data)}
                 /\ \A n \in Nodes(data) :
                        <<n[1], n[2],
                          IF n[2] = "str" THEN Expanded(n[3], secrets) ELSE n[3]>>
                            \in Nodes(replaced)
                 /\ SecretRefs(data) = {} => replaced = data

\* A document whose placeholders sit two and three levels deep went through
\* the call with both secrets set.
ReplaceSecretsWitness ==
    /\ pc # "secrets" /\ Truthy(SECRETS_ENV)
    /\ replaced # None
    /\ SecretRefs(data) = {"api_key", "DB_PASS"}
    /\ \E n \in Nodes(data) : Len(n[1]) = 2 /\ n[2] = "str" /\ SecretRefs(YStr(n[3])) # {}
    /\ \E n \in Nodes(data) : n[2] = "int"
    /\ replaced # data

\* C15 (as claimed): a run whose document refers to a secret that the
\* mapping parsed from SECRETS does not define (SECRETS unset or empty gives
\* the empty mapping) issues no request.
UndefinedSecretIssuesNoCall ==
    UndefinedRefs(data, parse_env(SECRETS_ENV)) # {} => calls = <<>>
\* The value load_config reads for a path field: the declared one, or the
\* default of the field.
DeclaredPath(site, f) ==
    IF f \in DOMAIN site THEN site[f]
    ELSE CASE f = "root_dir" -> Some(<<".">>)
           [] f = "web_dir" -> Some(<<"public">>)
           [] OTHER -> NonePath

\* C17: for each of root_dir, web_dir, env_file and nginx_custom_config,
\* load_config stores "." followed by the input when the input starts with
\* "/", and the input itself otherwise (None and the empty string included);
\* normalising the stored value again changes nothing.
PathNormalisation ==
    /\ nrm.config # None =>
           \A f \in PathFields :
               LET input == DeclaredPath(nrm.site, f)
                   output == nrm.config[f]
               IN  IF input.some /\ Len(input.path) > 0 /\ input.path[1] = "/"
                   THEN /\ output.some
                        /\ Len(output.path) = Len(input.path) + 1
                        /\ output.path[1] = "."
                        /\ \A i \in 1..Len(input.path) :
                               output.path[i + 1] = input.path[i]
                   ELSE output = input
    /\ nrm.again # None =>
           \A f \in PathFields : nrm.again[f] = nrm.config[f]

\* The absolute path /a/ declared as env_file was normalised twice.
PathNormalisationWitness ==
    /\ nrm.again # None
    /\ "env_file" \in DOMAIN nrm.site
    /\ nrm.site["env_file"] = Some(<<"/", "a", "/">>)
    /\ nrm.again["env_file"] = Some(<<".", "/", "a", "/">>)
\* The lines of a text that hold "=", by position; the key and the value a
\* line stands for.
Assignments(text) ==
    IF text = NoText THEN {}
    ELSE {i \in 1..Len(text) : \E j \in 1..Len(text[i]) : text[i][j] = Eq}

KeyOfLine(line) ==
    LET j == CHOOSE k \in 1..Len(line) :
                 line[k] = Eq /\ \A h \in 1..(k - 1) : line[h] # Eq
    IN  UpperStr(Strip(SubSeq(line, 1, j - 1)))

ValueOfLine(line) ==
    LET j == CHOOSE k \in 1..Len(line) :
                 line[k] = Eq /\ \A h \in 1..(k - 1) : line[h] # Eq
    IN  Strip(SubSeq(line, j + 1, Len(line)))

KeysOfText(text) == {KeyOfLine(text[i]) : i \in Assignments(text)}

\* The value a text gives a key: that of the last line that sets it.
ValueInText(text, key) ==
    LET i == CHOOSE k \in Assignments(text) :
                 /\ KeyOfLine(text[k]) = key
                 /\ \A h \in Assignments(text) :
                        KeyOfLine(text[h]) = key => h <= k
    IN  ValueOfLine(text[i])

\* C18: the content pushed holds exactly one line KEY=value for each key
\* that the env file or the inline environment sets, KEY being the key
\* upper-cased and value the inline value when the inline environment sets
\* the key, the env file's value otherwise; nothing is pushed when no key is
\* set.
EnvIsKeywiseMerge ==
    ev.done =>
        LET keys == KeysOfText(ev.env_file) \cup KeysOfText(ev.environment)
            value(key) == IF key \in KeysOfText(ev.environment)
                          THEN ValueInText(ev.environment, key)
                          ELSE ValueInText(ev.env_file, key)
        IN  IF keys = {} THEN ev.content = NoText
            ELSE /\ ev.content # NoText
                 /\ Len(ev.content) = Cardinality(keys)
                 /\ \A key \in keys :
                        \E i \in 1..Len(ev.content) :
                            ev.content[i] = key \o <<Eq>> \o value(key)
                 /\ \A key \in keys : \A j \in 1..Len(key) : Upper(key[j]) = key[j]

\* Both texts set APP_ENV, in different case and with different values, and
\* the env file alone sets DB_HOST.
EnvMergeWitness ==
    /\ ev.done
    /\ ev.env_file = <<<<"app_env", Eq, "dev">>, <<"db_host", Eq>>>>
    /\ ev.environment = <<<<"APP_ENV", Blank, Eq, Blank, "prod", Eq, "1">>>>
    /\ ev.content = <<<<"APP_ENV", Eq, "prod", Eq, "1">>, <<"DB_HOST", Eq>>>>
Observed(s, what) ==
    \E a \in 1..Len(loc.observed) : loc.observed[a] = [site |-> s, seen |-> what]

\* C19: once create_site was issued for a site, any other call for that site
\* than the status poll is issued only after a poll has shown the site with
\* status installed; a run that ends with the site-creation timeout has made
\* exactly 9 polls (max_retries 8), the last call of the run, and exits with
\* code 1; the wait never makes a tenth poll.
SiteInstalledBeforeUse ==
    /\ \A i \in 1..Len(calls) :
           calls[i].op = "create_site" =>
               \A j \in (i + 1)..Len(calls) :
                   (calls[j].site = calls[i].site
                        /\ calls[j].op # "until_site_installed")
                       => Observed(calls[i].site, "site_installed")
    /\ error = "Site creation timed out" =>
           /\ exit_code = 1
           /\ w.max = 8
           /\ w.calls = 9
           /\ Last(calls).op = "until_site_installed"
           /\ ~Observed(idx, "site_installed")
    /\ pc = "wait_site" => w.calls < 9

\* A created site was seen installed by a poll and its nginx config was
\* pushed afterwards.
SiteInstalledWitness ==
    \E i, j \in 1..Len(calls) :
        /\ i < j
        /\ calls[i].op = "create_site"
        /\ calls[j].op = "set_nginx_config"
        /\ calls[j].site = calls[i].site
        /\ Observed(calls[i].site, "site_installed")

\* C20 (as claimed): the PHP version of a site is assigned only after a
\* response of the server has shown the declared version with status
\* installed.
PhpAssignedAfterInstalledSeen ==
    \A j \in 1..Len(calls) :
        calls[j].op = "set_site_php" => Observed(calls[j].site, "php_installed")
\* C21 (as claimed): when the run starts polling the server's PHP list for
\* a version it asked to install, it has issued exactly one install request
\* for that version for the site in hand.
OneInstallRequestBeforePolling ==
    \A j \in 1..Len(calls) :
        calls[j].op = "until_php_installed" =>
            Len(SelectSeq(SubSeq(calls, 1, j),
                          LAMBDA c : /\ c.op = "install_php"
                                     /\ c.site = calls[j].site)) = 1
\* C22 (as claimed): a poll of wait(until_php_installed) whose response does
\* not list the requested version is a failed attempt of the wait (one more
\* retry, the next delay) and ends the run only when the retries ran out.
PhpPollMissingVersionIsFailedAttempt ==
    [][(/\ pc = "wait_php"
        /\ w.result = "running"
        /\ w' # w
        /\ \A i \in 1..Len(PhpResponse(r_php)) :
               PhpResponse(r_php)[i].version # site_conf.php_version)
           => /\ w' = WaitIter(w, FALSE)
              /\ pc' = "exit" => w'.result = "false"]_vars
\* C23: the attach call is issued exactly when clone_repository is true and
\* the site's remote repository differs from the declared one, always with
\* provider github and composer false; after it, every further call for the
\* site other than the repository poll (daemon, deployment script, deploy
\* among them) comes only once a poll has shown repository_status installed.
AttachOnlyWhenNeededThenPolled ==
    /\ [](\A i \in 1..Len(calls) :
              calls[i].op = "attach_repository" =>
                  /\ calls[i].arg.provider = "github"
                  /\ calls[i].arg.composer = FALSE
                  /\ calls[i].arg.repository = cfg.github_repository
                  /\ \A j \in (i + 1)..Len(calls) :
                         (calls[j].site = calls[i].site
                              /\ calls[j].op # "until_repo_installed")
                             => Observed(calls[i].site, "repo_installed"))
    /\ [][/\ (pc = "repo" /\ pc' # pc) =>
                 ((Len(calls') = Len(calls) + 1
                       /\ Last(calls').op = "attach_repository"
                       /\ Last(calls').site = idx)
                  <=> (/\ site_conf.clone_repository
                       /\ r_sites[loc.site_id].repository
                              # cfg.github_repository))
          /\ (Len(calls') = Len(calls) + 1
                  /\ Last(calls').op = "attach_repository")
                 => pc = "repo"]_vars

\* A repository was attached, a poll showed it installed, and the site was
\* deployed afterwards.
AttachWitness ==
    \E i, j \in 1..Len(calls) :
        /\ i < j
        /\ calls[i].op = "attach_repository"
        /\ calls[j].op = "deploy"
        /\ calls[j].site = calls[i].site
        /\ Observed(calls[i].site, "repo_installed")
\* The site block of the document in hand, and dict.get on it.
DocSite == DictGet(data.v, "sites").v[1]

DocEnded == ld.stage \in {"exit", "attached"}

\* C24 (as claimed): for a document whose site block declares github_branch
\* (nothing else stands in the way of the run: no key load_config alone
\* knows, no token in the nginx config), the attach request is made with the
\* site's branch; for a block without one it is made with the configuration's
\* branch.
AttachBranchIsSiteBranchIfDeclared ==
    (/\ DocEnded
     /\ ~DictHas(DocSite.v, "nginx_template_variables")
     /\ ld.nginx_config = LocalTemplate)
        => /\ ld.stage = "attached"
           /\ ld.attach.branch =
                  IF DictHas(DocSite.v, "github_branch")
                  THEN PyStr(DictGet(DocSite.v, "github_branch"))
                  ELSE IF DictHas(data.v, "github_branch")
                       THEN PyStr(DictGet(data.v, "github_branch"))
                       ELSE "main"

\* The mapping the site block declares under the key of the schema.
DeclaredVariables ==
    IF DictHas(DocSite.v, "nginx_config_variables")
    THEN PyDict(DictGet(DocSite.v, "nginx_config_variables"))
    ELSE NoVariables

\* C29 (as claimed): for a document that passes the validation, the mapping
\* used to substitute the tokens of the new site's nginx config is the
\* mapping its site block declares, and a token without an entry in it ends
\* the run before the config is pushed.
SubstitutionUsesDeclaredVariables ==
    (ld.stage \in {"substituted", "attached"}
         \/ ld.error = "Failed to set nginx config variables")
        => /\ ld.variables = DeclaredVariables
           /\ UnsetVariables(ld.nginx_config, DeclaredVariables) # {}
                  <=> (ld.stage = "exit" /\ ld.pushed = <<>>)
RepositoryOps ==
    {"attach_repository", "until_repo_installed", "deploy",
     "until_site_deployed", "get_deployment_log", "get_deployment_history"}

\* The site of the server that carries the domain of the s-th declared site.
RemoteSiteOf(s) ==
    r_sites[CHOOSE id \in 1..Len(r_sites) :
                r_sites[id].name = cfg.sites[s].site_domain]

\* The loop body of the s-th site was left at its end in this run.
SiteDone(s) == idx > s \/ (idx = s /\ pc = "exit" /\ exit_code = 0)

\* C25: for a site with clone_repository false the run issues no attach, no
\* deploy trigger, no deployment-status poll and no log or history fetch;
\* the other convergence steps are made all the same: once the site's loop
\* body ended, the site exists with the declared aliases and PHP version,
\* its daemons were read, the deployment script was pushed when commands are
\* declared and the certificates were listed when one is requested.
NoCloneSkipsRepositoryOnly ==
    \A s \in 1..Len(cfg.sites) :
        ~cfg.sites[s].clone_repository =>
            /\ CallsOf(calls, s, RepositoryOps) = <<>>
            /\ SiteDone(s) =>
                   /\ Range(RemoteSiteOf(s).aliases) = Range(cfg.sites[s].aliases)
                   /\ cfg.sites[s].php_version # NoStr =>
                          RemoteSiteOf(s).php_version = cfg.sites[s].php_version
                   /\ CallsOf(calls, s, {"get_site"}) # <<>>
                   /\ CallsOf(calls, s, {"get_daemons"}) # <<>>
                   /\ cfg.sites[s].deployment_commands # NoStr =>
                          CallsOf(calls, s, {"set_deployment_script"}) # <<>>
                   /\ cfg.sites[s].certificate =>
                          CallsOf(calls, s, {"list_certificates"}) # <<>>

\* A run ended with exit code 0 for a site without clone_repository whose
\* remote repository is not the declared one and whose PHP version the run
\* had to assign.
NoCloneWitness ==
    /\ pc = "exit" /\ exit_code = 0
    /\ ~cfg.sites[1].clone_repository
    /\ RemoteSiteOf(1).repository # cfg.github_repository
    /\ CallsOf(calls, 1, {"set_site_php"}) # <<>>
\* C26: the poll that follows the deploy trigger has no retry limit: it goes
\* on until a response shows deployment_status null and never ends as a
\* timeout; the deployment log and the history are requested only after such
\* a response; a log request answered 404 (or 200) is followed by the history
\* request, and a log request that failed otherwise ends the run with exit
\* code 1.
DeployPolledWithoutLimit ==
    /\ [](/\ pc = "wait_deploy" => w.max = -1 /\ w.result = "running"
          /\ error # "Deploying site timed out"
          /\ \A j \in 1..Len(calls) :
                 calls[j].op \in {"get_deployment_log", "get_deployment_history"}
                     => /\ Observed(calls[j].site, "deployed")
                        /\ \E i \in 1..(j - 1) :
                               /\ calls[i].op = "deploy"
                               /\ calls[i].site = calls[j].site
                               /\ calls[i].ok)
    /\ [][/\ (pc = "wait_deploy" /\ pc' # pc /\ pc' # "exit")
                 => r_sites[loc.site_id].deployment_status = NoStr
          /\ (pc = "deployment_log" /\ pc' # pc)
                 => IF Last(calls').ok
                    THEN /\ Last(calls').arg \in {200, 404}
                         /\ pc' = "deployment_history"
                    ELSE pc' = "exit" /\ exit_code' = 1]_vars

\* The deployment log answered 404 and the history was read afterwards.
DeployLog404Witness ==
    \E i, j \in 1..Len(calls) :
        /\ i < j
        /\ calls[i].op = "get_deployment_log" /\ calls[i].ok
        /\ calls[i].arg = 404
        /\ calls[j].op = "get_deployment_history" /\ calls[j].ok
        /\ calls[j].site = calls[i].site
        /\ Observed(calls[i].site, "deployed")
CreationOps ==
    {"get_nginx_templates", "create_nginx_template", "get_nginx_template_by_id",
     "update_nginx_template", "create_site", "until_site_installed"}

\* The s-th declared site is in the list of sites the run fetched.
PresentWhenListed(s) ==
    \E i \in 1..Len(loc.sites) : loc.sites[i].name = cfg.sites[s].site_domain

\* C27: for a declared site that the fetched list of sites holds, the run
\* reads, creates and updates no nginx template, creates no site, polls no
\* site status and pushes no variable-substituted nginx config (an nginx
\* config is read only for a declared custom config); from the lookup it
\* goes to the alias step without a call.
PresentSiteSkipsCreation ==
    /\ [](\A s \in 1..Len(cfg.sites) :
              PresentWhenListed(s) =>
                  /\ CallsOf(calls, s, CreationOps) = <<>>
                  /\ \A j \in 1..Len(calls) :
                         (calls[j].site = s /\ calls[j].op = "set_nginx_config")
                             => calls[j].arg = "custom"
                  /\ CallsOf(calls, s, {"get_nginx_config"}) # <<>>
                         => cfg.sites[s].nginx_custom_config # NoStr)
    /\ [][(pc = "site" /\ pc' # pc /\ PresentWhenListed(idx))
              => pc' = "aliases" /\ calls' = calls]_vars

\* A run over a site that was present ended with exit code 0 and began that
\* site's calls with the alias update.
PresentSiteWitness ==
    /\ pc = "exit" /\ exit_code = 0
    /\ PresentWhenListed(1)
    /\ CallsOf(calls, 1, Ops(calls)) # <<>>
    /\ Head(CallsOf(calls, 1, Ops(calls))).op = "update_site"
\* C28: create_site carries the id of a server template that has the
\* declared name, found by name or created just before from the local file;
\* when the local file exists the content of that server template is the
\* file's content at the time of the call; when no server template has the
\* name and there is no local file the run ends with "Invalid nginx template
\* name" and no create_site.
SiteCreatedFromDeclaredTemplate ==
    /\ [](error = "Invalid nginx template name" =>
              /\ pc = "exit" /\ exit_code = 1
              /\ CallsOf(calls, idx, {"create_site"}) = <<>>
              /\ ~TemplateFileExists
              /\ \A i \in 1..Len(r_templates) :
                     r_templates[i].name # site_conf.nginx_template)
    /\ [][/\ (Len(calls') = Len(calls) + 1 /\ Last(calls').op = "create_site")
                 => LET id == Last(calls').arg.nginx_template
                    IN  /\ id \in 1..Len(r_templates)
                        /\ r_templates[id].id = id
                        /\ r_templates[id].name = site_conf.nginx_template
                        /\ r_templates' = r_templates
                        /\ Last(calls).site = idx
                        /\ Last(calls).op \in
                               {"create_nginx_template", "update_nginx_template",
                                "get_nginx_template_by_id"}
                        /\ TemplateFileExists =>
                               r_templates[id].content =
                                   files.templates[site_conf.nginx_template]
          /\ (/\ pc = "get_templates" /\ pc' # pc
              /\ ~TemplateFileExists
              /\ \A i \in 1..Len(r_templates) :
                     r_templates[i].name # site_conf.nginx_template)
                 => pc' = "exit" /\ error' = "Invalid nginx template name"]_vars

\* The server's template differed from the local file, was updated, and the
\* site was created from it.
TemplateUpdatedWitness ==
    \E i, j \in 1..Len(calls) :
        /\ i < j
        /\ calls[i].op = "update_nginx_template"
        /\ calls[j].op = "create_site"
        /\ calls[j].site = calls[i].site
        /\ r_templates[calls[j].arg.nginx_template].content =
               files.templates[cfg.sites[calls[j].site].nginx_template]
\* C30: the alias update is issued exactly when the set of the site's remote
\* aliases differs from the set of the declared aliases, whatever the order
\* and the repetitions of the two lists, and it carries the whole declared
\* list.
AliasUpdateIffSetsDiffer ==
    [][(pc = "aliases" /\ pc' # pc) =>
           LET issued == /\ Len(calls') = Len(calls) + 1
                         /\ Last(calls').op = "update_site"
                         /\ Last(calls').site = idx
           IN  /\ issued <=>
                      {r_sites[loc.site_id].aliases[i] :
                           i \in 1..Len(r_sites[loc.site_id].aliases)}
                      # {site_conf.aliases[i] : i \in 1..Len(site_conf.aliases)}
               /\ ~issued => calls' = calls
               /\ issued => /\ Last(calls').arg = site_conf.aliases
                            /\ r_sites'[loc.site_id].aliases = site_conf.aliases]_vars

\* Remote and declared aliases are different lists of one set and the run
\* went through the site's steps without an alias update.
AliasSameSetWitness ==
    /\ pc = "exit" /\ exit_code = 0 /\ run = 1
    /\ cfg.sites[1].aliases = <<"m.a.test", "www.a.test">>
    /\ r_sites[1].aliases = <<"www.a.test", "m.a.test">>
    /\ CallsOf(calls, 1, {"update_site"}) = <<>>
    /\ CallsOf(calls, 1, {"get_daemons"}) # <<>>
\* C31: for a site whose declared custom nginx config file exists, the step
\* pushes an nginx config exactly when the site's remote config differs from
\* the file's content, and after the step the remote config is the file's
\* content; for a site without a declared custom config the step issues no
\* call and leaves the remote config alone.
CustomNginxConverges ==
    /\ [](\A j \in 1..Len(calls) :
              (calls[j].op = "set_nginx_config" /\ calls[j].arg = "custom")
                  => cfg.sites[calls[j].site].nginx_custom_config # NoStr)
    /\ [][/\ (/\ pc = "custom_nginx" /\ pc' # pc
              /\ site_conf.nginx_custom_config = NoStr)
                 => calls' = calls /\ r_sites' = r_sites /\ pc' = "php_get"
          /\ (pc = "custom_nginx_set" /\ pc' # pc)
                 => LET content == files.custom[site_conf.nginx_custom_config]
                        issued == /\ Len(calls') = Len(calls) + 1
                                  /\ Last(calls').op = "set_nginx_config"
                                  /\ Last(calls').site = idx
                    IN  /\ issued <=> r_sites[loc.site_id].nginx # content
                        /\ ~issued => calls' = calls
                        /\ r_sites'[loc.site_id].nginx = content]_vars

\* The remote config differed from the custom file and was replaced by it.
CustomNginxWitness ==
    \E j \in 1..Len(calls) :
        /\ calls[j].op = "set_nginx_config" /\ calls[j].arg = "custom"
        /\ RemoteSiteOf(calls[j].site).nginx =
               files.custom[cfg.sites[calls[j].site].nginx_custom_config]
        /\ pc = "exit" /\ exit_code = 0

\* The scheduler command expected for the site in hand, read off the remote
\* site and the configuration.
ExpectedSchedulerCmd ==
    <<format_php_version(r_sites[loc.site_id].php_version),
      SiteDir(site_conf), "artisan schedule:run">>

SchedulerJobExists ==
    \E j \in 1..Len(r_jobs) : r_jobs[j].command = ExpectedSchedulerCmd

JobOps == {"create_job", "delete_job"}

DaemonOps == {"get_daemons", "delete_daemon", "create_daemon"}

\* The daemons of the response to the site's daemon listing in this run.
FetchedDaemons(s) ==
    calls[CHOOSE j \in 1..Len(calls) :
              calls[j].op = "get_daemons" /\ calls[j].site = s].arg

\* Ids this run's daemon convergence deleted, kept and created for site s.
DeletedDaemonIds(s) ==
    {calls[j].arg : j \in {i \in 1..Len(calls) :
                             calls[i].op = "delete_daemon" /\ calls[i].site = s}}

KeptDaemonIds(s) ==
    {FetchedDaemons(s)[j].id : j \in {i \in 1..Len(FetchedDaemons(s)) :
         FetchedDaemons(s)[i].directory = SiteDir(cfg.sites[s])}}
    \ DeletedDaemonIds(s)

CreatedDaemonIds(s) ==
    {r_daemons[j].id : j \in {i \in 1..Len(r_daemons) :
         /\ r_daemons[i].directory = SiteDir(cfg.sites[s])
         /\ \A f \in 1..Len(FetchedDaemons(s)) :
               FetchedDaemons(s)[f].id # r_daemons[i].id}}

\* C33: with deployment_commands declared the script pushed for a site has
\* exactly one supervisor restart line for each daemon id its daemon
\* convergence kept or created and none for an id it deleted, is pushed
\* after the daemon convergence and with auto_source false; without
\* deployment_commands no deployment-script call is issued.
ScriptRestartsConvergedDaemons ==
    /\ [](\A j \in 1..Len(calls) :
            calls[j].op = "set_deployment_script"
                => /\ cfg.sites[calls[j].site].deployment_commands # NoStr
                   /\ \E g \in 1..(j - 1) : /\ calls[g].op = "get_daemons"
                                            /\ calls[g].site = calls[j].site
                   /\ \A d \in (j + 1)..Len(calls) :
                         ~(calls[d].op \in DaemonOps
                             /\ calls[d].site = calls[j].site))
    /\ [][(pc = "script" /\ pc' # pc)
            => IF site_conf.deployment_commands = NoStr
               THEN calls' = calls /\ r_sites' = r_sites
               ELSE LET script == Last(calls').arg
                        ids == KeptDaemonIds(idx) \cup CreatedDaemonIds(idx)
                    IN  /\ Len(calls') = Len(calls) + 1
                        /\ Last(calls').op = "set_deployment_script"
                        /\ Last(calls').site = idx
                        /\ script.auto_source = FALSE
                        /\ script.commands = site_conf.deployment_commands
                        /\ \A d \in ids :
                              Cardinality({l \in 1..Len(script.restart) :
                                              script.restart[l] = d}) = 1
                        /\ \A l \in 1..Len(script.restart) :
                              /\ script.restart[l] \in ids
                              /\ script.restart[l] \notin DeletedDaemonIds(idx)
                        /\ Cardinality(CreatedDaemonIds(idx))
                             = Cardinality({c \in 1..Len(calls) :
                                   /\ calls[c].op = "create_daemon"
                                   /\ calls[c].site = idx})
                        /\ r_sites'[loc.site_id].script = script]_vars

\* A run that ended well after pushing a script that restarts a kept and a
\* created daemon, having deleted a third one.
ScriptRestartsWitness ==
    /\ pc = "exit" /\ exit_code = 0
    /\ \E j \in 1..Len(calls) :
          /\ calls[j].op = "set_deployment_script"
          /\ KeptDaemonIds(calls[j].site) # {}
          /\ CreatedDaemonIds(calls[j].site) # {}
          /\ DeletedDaemonIds(calls[j].site) # {}
          /\ Len(calls[j].arg.restart) = 2

\* C34 (as claimed): within one run site-create is issued
\* at most once per domain and never for a domain that exists on the server
\* when the call is made, also for a list declaring a site_domain twice.
SiteCreatedOncePerDomain ==
    /\ [](\A j, k \in 1..Len(calls) :
            (/\ j < k
             /\ calls[j].op = "create_site" /\ calls[k].op = "create_site")
                => calls[j].arg.domain # calls[k].arg.domain)
    /\ [][(pc = "create_site" /\ pc' # pc /\ Len(calls') = Len(calls) + 1
            /\ Last(calls').op = "create_site")
            => \A id \in 1..Len(r_sites) :
                  r_sites[id].name # Last(calls').arg.domain]_vars

\* C35 (as claimed): when the run reports a site as deployed successfully,
\* the deployment started by the run's deploy trigger for the site has
\* finished and did not fail, also with a provider that turns
\* deployment_status non-null only some time after accepting the trigger.
DeployedReportIsTrue ==
    [][(pc = "deployment_history" /\ pc' # pc /\ error' = NoStr)
        => LET site == r_sites[loc.site_id]
           IN  /\ ~site.deploy_accepted
               /\ site.deployment_status = NoStr
               /\ site.history # <<>>
               /\ site.history[1].status = "finished"]_vars

\* C36 (as claimed): a certificate activation call is issued only for a
\* certificate whose status a response read for the site has shown as
\* installed, be the certificate created in this run or an existing one
\* matched by its domain set.
ActivationOnlyAfterInstalledSeen ==
    \A j \in 1..Len(calls) :
        calls[j].op = "activate_certificate"
            => Observed(calls[j].site, "installed")

\* The daemons of the server that are not in the directory of site s.
DaemonsElsewhere(daemons, s) ==
    SelectSeq(daemons, LAMBDA d : d.directory # SiteDir(cfg.sites[s]))

\* C37: the daemon convergence of a site deletes no daemon whose directory
\* differs from /home/forge/<site_domain>/<root_dir>, and the daemons of
\* other directories are the same after each of its steps as before.
DaemonsOfOtherSitesUntouched ==
    [][(/\ pc \in {"daemons_get", "daemons_delete", "daemons_add"}
        /\ (pc' # pc \/ loc' # loc))
        => /\ DaemonsElsewhere(r_daemons', idx) = DaemonsElsewhere(r_daemons, idx)
           /\ (Len(calls') = Len(calls) + 1 /\ Last(calls').op = "delete_daemon")
                => \E j \in 1..Len(r_daemons) :
                      /\ r_daemons[j].id = Last(calls').arg
                      /\ r_daemons[j].directory = SiteDir(site_conf)
                      /\ \A i \in 1..Len(r_daemons') :
                            r_daemons'[i].id # Last(calls').arg]_vars

\* A run that ended well after deleting a daemon of the site, with a daemon
\* of another directory on the server whose command the site does not declare.
DaemonsOfOtherSitesWitness ==
    /\ pc = "exit" /\ exit_code = 0
    /\ \E j \in 1..Len(calls) :
          /\ calls[j].op = "delete_daemon"
          /\ \E d \in 1..Len(r_daemons) :
                /\ r_daemons[d].directory # SiteDir(cfg.sites[calls[j].site])
                /\ \A c \in 1..Len(cfg.sites[calls[j].site].daemons) :
                      cfg.sites[calls[j].site].daemons[c].command
                          # r_daemons[d].command

\* The calls of run p with an operation of ops, in order.
RunCalls(p, ops) == SelectSeq(calls, LAMBDA c : c.run = p /\ c.op \in ops)

\* The run is past its lookup of the site and the creation that follows it.
PastLookup(p) == pc[p] \notin {"get_sites", "site", "create_site"}

\* The domain is not in the listing the run received.
AbsentFromListing(p) ==
    \A j \in 1..Len(RunCalls(p, {"get_sites"})[1].arg) :
        RunCalls(p, {"get_sites"})[1].arg[j].name # cfg.sites[1].site_domain

\* The declared commands that no daemon of the site's directory in the
\* listing the run received has.
MissingInListing(p) ==
    LET listed == SelectSeq(RunCalls(p, {"get_daemons"})[1].arg,
                     LAMBDA d : d.directory = SiteDir(cfg.sites[1]))
        declared == [j \in 1..Len(cfg.sites[1].daemons) |->
                        cfg.sites[1].daemons[j].command]
    IN  SelectSeq(declared, LAMBDA c :
            \A j \in 1..Len(listed) : listed[j].command # c)

\* C38: of two runs of one configuration at once, each issues site-create
\* exactly when the domain is absent from the listing it received itself,
\* and creates exactly the declared daemons missing from the daemon listing
\* it received itself, whatever the other run has done to the server since:
\* no step of a run looks at the server again or waits for the other run, so
\* both can see the domain absent and both create it (likewise a daemon).
RunsActOnTheirOwnListing ==
    \A p \in Runs :
        /\ PastLookup(p)
              => (RunCalls(p, {"create_site"}) # <<>> <=> AbsentFromListing(p))
        /\ Len(RunCalls(p, {"create_site"})) <= 1
        /\ pc[p] = "done"
              => [j \in 1..Len(RunCalls(p, {"create_daemon"})) |->
                      RunCalls(p, {"create_daemon"})[j].arg]
                    = MissingInListing(p)

\* Both runs found a.test absent and created it, and both created the daemon
\* queue:work for it: the server holds two sites a.test and the daemon twice.
BothRunsCreated ==
    /\ \A p \in Runs :
          /\ pc[p] = "done"
          /\ AbsentFromListing(p)
          /\ Len(RunCalls(p, {"create_site"})) = 1
          /\ Len(RunCalls(p, {"create_daemon"})) = 1
    /\ Cardinality({id \in 1..Len(r_sites) :
                       r_sites[id].name = cfg.sites[1].site_domain}) = 2
    /\ Cardinality({j \in 1..Len(r_daemons) :
                       /\ r_daemons[j].command = "queue:work"
                       /\ r_daemons[j].directory = SiteDir(cfg.sites[1])}) = 2

\* C39 (as claimed): in the root-level script the wait entered with
\* max_retries = -1 (the deploy-completion wait) never returns False, the
\* value reported as the deploy timeout, and returns True only on the call
\* on which the predicate first holds (deployment_status is null).
RootDeployWaitNeverTimesOut ==
    w.max = -1 =>
        /\ w.result # "false"
        /\ w.result = "true" => succAt # 0 /\ w.calls = succAt

====
